---- MODULE Spec2Model ----
(***************************************************************************)
(* The local persistence layer of wavechat (src/services/databaseService.js)*)
(* as a state machine.  The four AsyncStorage keys hold whole JSON blobs;   *)
(* every exported operation is an async function whose awaits are the       *)
(* points where another operation may run.  Each operation is therefore a   *)
(* task that moves from await to await: the step taken at a pc is the code  *)
(* between that await and the next one.                                      *)
(***************************************************************************)
EXTENDS Integers, Sequences, FiniteSets, TLC

\* ------------------------------------------------------------------ bounds
MaxOps == 2          \* operations called in one behaviour

\* ------------------------------------------------------------ JS helpers
Tasks == {1, 2}

CURRENT_USER == "123"
Senders == {"123", "456"}
\* the hook sends voice messages as the current user only (useMessages.js:125)
AudioSenders == {"123"}
Texts == {"hi"}
Durations == {68}
TagInputs == {<<"todo">>}
Names == {"Ann"}
\* conversation ids a caller may pass that were never created
UnknownConvs == {"9"}
\* property names that JavaScript treats as array indices: they are
\* enumerated first, in ascending numeric order, by for..in and JSON.stringify
IndexKeys == <<"1", "2", "9">>

IsIndexKey(k) == \E i \in 1..Len(IndexKeys) : IndexKeys[i] = k
IndexOf(k) == CHOOSE i \in 1..Len(IndexKeys) : IndexKeys[i] = k

\* new Date(clock).toISOString(): timestamps are compared only for equality
ISO(t) == 10 + t

AUDIO_DIRECTORY == "audio/"
CONVERSATIONS_STORAGE_KEY == "local_conversations"
MESSAGES_STORAGE_KEY == "local_messages"
REACTIONS_STORAGE_KEY == "local_message_reactions"
REPLIES_STORAGE_KEY == "local_message_replies"
AllKeys == {CONVERSATIONS_STORAGE_KEY, MESSAGES_STORAGE_KEY,
            REACTIONS_STORAGE_KEY, REPLIES_STORAGE_KEY}

\* A JavaScript object used as a dictionary is a sequence of [key, val]
\* entries in property-enumeration order.
Keys(d) == {d[i].key : i \in 1..Len(d)}
Has(d, k) == \E i \in 1..Len(d) : d[i].key = k
Get(d, k) == d[CHOOSE i \in 1..Len(d) : d[i].key = k].val
InsertAt(d, p, e) == [i \in 1..(Len(d) + 1) |->
                        IF i < p THEN d[i] ELSE IF i = p THEN e ELSE d[i - 1]]
\* position of a new property: index keys ascending first, then the others
\* in insertion order
NewPos(d, k) ==
    IF IsIndexKey(k)
    THEN 1 + Cardinality({i \in 1..Len(d) :
                 IsIndexKey(d[i].key) /\ IndexOf(d[i].key) < IndexOf(k)})
    ELSE Len(d) + 1
Put(d, k, v) ==
    IF Has(d, k)
    THEN [i \in 1..Len(d) |-> IF d[i].key = k THEN [key |-> k, val |-> v] ELSE d[i]]
    ELSE InsertAt(d, NewPos(d, k), [key |-> k, val |-> v])
\* a slip that would give a null entry for a key the object does not have
GetOr_null(d, k) == IF Has(d, k) THEN Get(d, k) ELSE <<"null">>
\* obj[k] || []
GetOr(d, k) == IF Has(d, k) THEN Get(d, k) ELSE <<>>

\* Array.prototype.findIndex, 0 for -1
FindIndex(list, id) ==
    IF \E i \in 1..Len(list) : list[i].id = id
    THEN CHOOSE i \in 1..Len(list) :
           /\ list[i].id = id
           /\ \A j \in 1..(i - 1) : list[j].id # id
    ELSE 0
\* Array.prototype.splice(index, 1)
Splice(list, p) == [i \in 1..(Len(list) - 1) |-> IF i < p THEN list[i] ELSE list[i + 1]]
\* Array.prototype.map
Map(list, F(_)) == [i \in 1..Len(list) |-> F(list[i])]


\* ------------------------------------------------------------ seed data
\* The mock data, cut down to the records the modelled calls name: of
\* conversation "1" the messages 101, 103 and 106, of conversation "2" its
\* last message 205.  This is the seeded store after deleteMessage of the
\* other messages of the two conversations (none of them is the last of its
\* list, so the conversation records are the seeded ones), without the
\* conversations "3" to "5", which no call of the model names.  Timestamps
\* are numbered in the order of their ages; the waveform, which the service
\* never reads, is left out; emoji are spelt out.
SampleUri(id) == AUDIO_DIRECTORY \o "sample_" \o id \o ".m4a"

dummyMessages ==
    << [key |-> "1", val |->
          << [id |-> "101", text |-> "Hi Sarah, how are you doing?", timestamp |-> 2,
              senderId |-> "123", senderName |-> "You", type |-> "text"],
             [id |-> "103", audioDuration |-> 8, timestamp |-> 3,
              senderId |-> "123", senderName |-> "You", type |-> "audio",
              tags |-> <<"Question", "Task">>],
             [id |-> "106", audioDuration |-> 12, timestamp |-> 7,
              senderId |-> "456", senderName |-> "Sarah Johnson", type |-> "audio",
              tags |-> <<"Update">>] >>],
       [key |-> "2", val |->
          << [id |-> "205", text |-> "Great work on the presentation yesterday!",
              timestamp |-> 1,
              senderId |-> "789", senderName |-> "Michael Chen", type |-> "text"] >>] >>

dummyConversations ==
    << [id |-> "1", participantName |-> "Sarah Johnson",
        participantAvatar |-> "https://randomuser.me/api/portraits/women/44.jpg",
        lastMessage |-> "(mic) Voice message (0:12)", lastMessageTimestamp |-> 7,
        read |-> FALSE, unreadCount |-> 2, lastMessageType |-> "audio"],
       [id |-> "2", participantName |-> "Michael Chen",
        participantAvatar |-> "https://randomuser.me/api/portraits/men/32.jpg",
        lastMessage |-> "Great work on the presentation yesterday!",
        lastMessageTimestamp |-> 1,
        read |-> TRUE, unreadCount |-> 0, lastMessageType |-> "text"] >>

\* the timestamp of a reaction or reply is its place in the audio, in tenths
\* of a second
dummyReactions ==
    [m \in {"103"} |->
        << [id |-> "react_1", emoji |-> "thumbs up", timestamp |-> 25,
            username |-> "Sarah Johnson", userId |-> "456", createdAt |-> 5],
           [id |-> "react_2", emoji |-> "fire", timestamp |-> 58,
            username |-> "You", userId |-> "123", createdAt |-> 6] >>]

dummyReplies ==
    [m \in {"103"} |->
        << [id |-> "reply_1", text |-> "I'll check that part of the code", timestamp |-> 32,
            username |-> "Sarah Johnson", userId |-> "456", createdAt |-> 4] >>]

\* a slip that would seed the messages as they are in the mock data
modifiedMessages_plain == dummyMessages

\* lines 45-53: every seeded audio message gets audioUri sample_<id>.m4a
modifiedMessages ==
    Map(dummyMessages, LAMBDA e :
        [key |-> e.key,
         val |-> Map(e.val, LAMBDA msg :
                    IF msg.type = "audio"
                    THEN [audioUri |-> SampleUri(msg.id)] @@ msg
                    ELSE msg)])

\* inputs of addReactionToMessage / addReplyToMessage (the screens build a
\* reaction without createdAt and a reply with it)
ReactionInputs ==
    { [id |-> "r1", emoji |-> "thumb", timestamp |-> 3, username |-> "You"] }
ReplyInputs ==
    { [id |-> "p1", text |-> "ok", timestamp |-> 3, username |-> "You", createdAt |-> 9] }

\* ---------------------------------------------------------------- state
VARIABLES
    conversations,   \* blob under CONVERSATIONS_STORAGE_KEY: list of conversations
    messages,        \* blob under MESSAGES_STORAGE_KEY: conversation id -> list
    reactions,       \* blob under REACTIONS_STORAGE_KEY: message id -> list
    replies,         \* blob under REPLIES_STORAGE_KEY: message id -> list
    present,         \* the storage keys that hold an item (getItem is not null)
    files,           \* files in AUDIO_DIRECTORY
    now,             \* last value of the clock that was read
    task,            \* per task: the running call, its pc and its locals
    overlapped,      \* tasks whose current call ran while another call was running
    pre,             \* the store when the last call began that found no call running
    race,            \* per key the running calls raced for: who set it last, from what
    calls,           \* number of calls the behaviour may still make
    hook,            \* the state of one useMessages hook
    recorder         \* the state of one useAudioRecorder hook, and the OS permission

vars == <<conversations, messages, reactions, replies, present, files, now,
          task, overlapped, pre, race, calls, hook, recorder>>
storeVars == <<conversations, messages, reactions, replies, present>>

Store == [conversations |-> conversations, messages |-> messages,
          reactions |-> reactions, replies |-> replies,
          present |-> present, files |-> files]

Idle == [op |-> "idle", pc |-> "idle"]

\* useAudioRecorder as it is after its first render (lines 13-24), before the
\* check of its mount effect has answered; os is the microphone permission as
\* the operating system has it.  `rendered' is the permissionStatus that the
\* functions of the last render see: they are made anew by every render and
\* close over the state of that render.
Recorder(os) ==
    [os |-> os,
     permissionStatus |-> "undetermined",
     hasPermission |-> FALSE,
     rendered |-> "undetermined",
     mountChecked |-> FALSE,
     isRecording |-> FALSE,
     recordingError |-> "null",
     recordingRef |-> FALSE,
     recordingTimerRef |-> FALSE,
     pc |-> "idle",
     closure |-> "undetermined",
     returned |-> <<>>]

\* useMessages as it is after its first render (lines 10-17): no message
\* fetched yet, no send awaited
Mounted(conversationId) ==
    [conversationId |-> conversationId,
     messages |-> <<>>,
     error |-> "null",
     sending |-> FALSE,
     isMountedRef |-> TRUE,
     unmounted |-> FALSE,
     awaiting |-> {}]
Active(t) == task[t].pc \notin {"idle", "done"}
At(t, op, pc) == task[t].op = op /\ task[t].pc = pc
OthersActive(t) == \E u \in Tasks \ {t} : Active(u)

NoLocals == [x \in {} |-> TRUE]

\* the local that holds what a call got from getItem(key)
JsonLocal(key) ==
    CASE key = CONVERSATIONS_STORAGE_KEY -> "conversationsJson"
      [] key = MESSAGES_STORAGE_KEY -> "messagesJson"
      [] key = REACTIONS_STORAGE_KEY -> "reactionsJson"
      [] key = REPLIES_STORAGE_KEY -> "repliesJson"
\* the key that the step taken at pc sets, "" for none
KeySetAt(pc) ==
    CASE pc = "setConversations" -> CONVERSATIONS_STORAGE_KEY
      [] pc \in {"setMessages", "fixMessages"} -> MESSAGES_STORAGE_KEY
      [] pc = "setReactions" -> REACTIONS_STORAGE_KEY
      [] pc = "setReplies" -> REPLIES_STORAGE_KEY
      [] OTHER -> ""
\* the call with record r has got the item of key and not yet set it
Holds(r, key) ==
    /\ r.pc \notin {"idle", "done"}
    /\ JsonLocal(key) \in DOMAIN r
    /\ key \notin r.saved
\* every task is in a call that has read the key, and none has written it back
Racing(tasks, key) == \A t \in Tasks : Holds(tasks[t], key)
NoWriter == [writer |-> 0]
NoRace == [key \in {} |-> NoWriter]
\* the value of race in the behaviours that keep no record of races
Unrecorded == [key \in {"unrecorded"} |-> NoWriter]
\* race after a step of task t that leaves the tasks as `tasks'; a new call
\* ends the races of the calls before it
Raced(t, tasks, isCall) ==
    IF race = Unrecorded THEN race
    ELSE LET set == KeySetAt(task[t].pc)
             old == IF isCall THEN {} ELSE DOMAIN race
         IN [key \in old \cup {k \in AllKeys : Racing(tasks, k)} |->
               IF key \in old
               THEN IF key = set
                    THEN [writer |-> t, base |-> task[t][JsonLocal(key)]]
                    ELSE race[key]
               ELSE NoWriter]

\* The clock when the timer of a call's simulated delay fires.  The delay is
\* at least 200 ms, so a call made after the calls before it have settled
\* finds the clock past every value read so far; a call made while another
\* one runs may find any value from the last one read on.
FireTimes == IF \E u \in Tasks : Active(u) THEN {now, now + 1} ELSE {now + 1}
\* the same, for a call that does not look at the clock once its timer fires
QuietTime == IF \E u \in Tasks : Active(u) THEN now ELSE now + 1
\* Date.now() / new Date() later in the call: the clock never runs backwards
\* (a call running alone reads a value no other call has read either way)
ClockReads(t) == IF t \in overlapped THEN {now, now + 1} ELSE {now}

\* The continuation of a hook's await runs as soon as the awaited promise has
\* settled, before any timer or storage callback: while one is due, nothing
\* else runs.
Due(t) == t \in hook.awaiting /\ task[t].pc = "done"

\* task t can take a new call (task ids name the calls in flight)
Free(t) ==
    /\ calls > 0
    /\ \A u \in Tasks : ~Due(u)
    /\ ~Active(t)
    /\ \A u \in Tasks : u < t => Active(u)

\* A call.  Every operation first awaits its simulated delay, which touches
\* no shared state, so the call is placed at the moment the timer fires (at
\* clock n) and the function runs on to its next await: `locals' is what it
\* has computed by then.  A settled task that is not the caller's is forgotten.
BeginCall(t, op, pc, args, locals, n) ==
    /\ Free(t)
    /\ calls' = calls - 1
    /\ now' = n
    /\ task' = [u \in Tasks |->
                  IF u = t
                  THEN ([op |-> op, pc |-> pc, args |-> args, saved |-> {}] @@ locals)
                  ELSE IF Active(u) THEN task[u] ELSE Idle]
    /\ overlapped' = IF OthersActive(t)
                     THEN {u \in Tasks : u = t \/ Active(u)}
                     ELSE {}
    /\ pre' = IF OthersActive(t) THEN pre ELSE Store
    /\ race' = Raced(t, task', TRUE)
    /\ recorder' = recorder

\* a call that no hook has made
Begin(t, op, pc, args, locals, n) ==
    /\ BeginCall(t, op, pc, args, locals, n)
    /\ hook' = hook

\* the task goes on to its next await with new values of some locals
Goto(t, pc, locals) ==
    /\ task' = [task EXCEPT ![t] = ([pc |-> pc] @@ locals) @@ @]
    /\ race' = Raced(t, task', FALSE)
    /\ hook' = hook
    /\ recorder' = recorder

\* what is left of a call once its promise has resolved with a value
Resolved(op, args, result) ==
    [op |-> op, pc |-> "done", args |-> args, settled |-> "resolved", result |-> result]

Return(t, result) ==
    /\ task' = [task EXCEPT ![t] = Resolved(@.op, @.args, result)]
    /\ race' = Raced(t, task', FALSE)
    /\ hook' = hook
    /\ recorder' = recorder

\* what is left of a call once its promise has rejected with an error
Rejected(op, args, error) ==
    [op |-> op, pc |-> "done", args |-> args, settled |-> "rejected", error |-> error]

\* throw error, in a function without a catch or with one that throws it on
Throw(t, error) ==
    /\ task' = [task EXCEPT ![t] = Rejected(@.op, @.args, error)]
    /\ race' = Raced(t, task', FALSE)
    /\ hook' = hook
    /\ recorder' = recorder

\* AsyncStorage.setItem(key, JSON.stringify(value))
SetItem(key) == present' = present \cup {key}
\* the keys task t has set so far in its call
Saved(t, key) == [saved |-> task[t].saved \cup {key}]

\* getConversations and getMessages, lines 82-83 and 102-109: what a reader
\* gets from the store as it is
getConversations == conversations
getMessages(conversationId) == GetOr(messages, conversationId)

\* ------------------------------------------------------ caller's inputs
ConvIds(convs) == {convs[i].id : i \in 1..Len(convs)}
MessageIds(all) == UNION {{all[i].val[j].id : j \in 1..Len(all[i].val)} : i \in 1..Len(all)}
CreatedConvs == ConvIds(conversations) \ ConvIds(dummyConversations)
SentMessages == MessageIds(messages) \ MessageIds(dummyMessages)
\* the ids each operation is called with: a seeded one, one the store never
\* held, and those the earlier calls created
\* conversation and sender: the other user writes in a seeded conversation
SendInputs == ({"1"} \X Senders) \cup ((UnknownConvs \cup CreatedConvs) \X {CURRENT_USER})
AudioConvInputs == {"1"} \cup CreatedConvs
ReadConvInputs == {"1"} \cup UnknownConvs
DeleteInputs == {"103", "106", "205", "nope"} \cup SentMessages
TagMessageInputs == {"106", "nope"} \cup SentMessages
AnnotatedInputs == {"103", "205"}

\* ------------------------------------------------- sendMessageToGCP
senderNameOf(senderId) == IF senderId = CURRENT_USER THEN "You" ELSE "Other User"

\* a slip that would take every message for one of the current user
SentConversations_ownMessage(convs, conversationId, lastMessage, timestamp, type, senderId) ==
    Map(convs, LAMBDA conv :
        IF conv.id = conversationId
        THEN [lastMessage |-> lastMessage,
              lastMessageTimestamp |-> timestamp,
              lastMessageType |-> type,
              read |-> TRUE,
              unreadCount |-> 0] @@ conv
        ELSE conv)

\* a slip that would leave the type of the preview as it was
SentConversations_staleType(convs, conversationId, lastMessage, timestamp, type, senderId) ==
    Map(convs, LAMBDA conv :
        IF conv.id = conversationId
        THEN [lastMessage |-> lastMessage,
              lastMessageTimestamp |-> timestamp,
              read |-> (senderId = CURRENT_USER),
              unreadCount |-> IF senderId = CURRENT_USER THEN 0 ELSE conv.unreadCount + 1] @@ conv
        ELSE conv)

\* lines 152-164 and 230-242: conversations.map(conv => ...)
SentConversations(convs, conversationId, lastMessage, timestamp, type, senderId) ==
    Map(convs, LAMBDA conv :
        IF conv.id = conversationId
        THEN [lastMessage |-> lastMessage,
              lastMessageTimestamp |-> timestamp,
              lastMessageType |-> type,
              read |-> (senderId = CURRENT_USER),
              unreadCount |-> IF senderId = CURRENT_USER THEN 0 ELSE conv.unreadCount + 1] @@ conv
        ELSE conv)

\* a slip that would put the new message first
PushMessage_unshift(all, conversationId, newMessage) ==
    Put(all, conversationId, <<newMessage>> \o GetOr(all, conversationId))

\* lines 146-149 and 217-220
PushMessage(all, conversationId, newMessage) ==
    Put(all, conversationId, Append(GetOr(all, conversationId), newMessage))

\* a slip that would add the message to the list as stored when it is saved
allMessages_merged(r) ==
    PushMessage(messages, r.args.conversationId, r.newMessage)

\* A task keeps what it has read (the ...Json locals) and what it has made
\* that is not a function of them; the objects it goes on to mutate and to
\* save, allMessages and updatedConversations, are computed where they are
\* saved: nothing runs between a read and the mutation that follows it.
allMessages(r) ==
    PushMessage(r.messagesJson, r.args.conversationId, r.newMessage)
updatedConversations(r) ==
    SentConversations(r.conversationsJson, r.args.conversationId, r.lastMessage,
                      r.args.timestamp, r.newMessage.type, r.args.senderId)

\* a slip that would save the conversations before the messages
SaveSent_conversationsFirst(t, op) ==
    \/ /\ At(t, op, "setMessages")
       /\ conversations' = updatedConversations(task[t])
       /\ SetItem(CONVERSATIONS_STORAGE_KEY)
       /\ Goto(t, "setConversations", Saved(t, CONVERSATIONS_STORAGE_KEY))
       /\ UNCHANGED <<messages, reactions, replies, files, now, overlapped, pre, calls>>
    \/ /\ At(t, op, "setConversations")
       /\ messages' = allMessages(task[t])
       /\ SetItem(MESSAGES_STORAGE_KEY)
       /\ Return(t, task[t].newMessage)
       /\ UNCHANGED <<conversations, reactions, replies, files, now, overlapped, pre, calls>>

\* lines 166-170 and 244-248: save the messages, then the conversations
SaveSent(t, op) ==
    \/ /\ At(t, op, "setMessages")
       /\ messages' = allMessages(task[t])
       /\ SetItem(MESSAGES_STORAGE_KEY)
       /\ Goto(t, "setConversations", Saved(t, MESSAGES_STORAGE_KEY))
       /\ UNCHANGED <<conversations, reactions, replies, files, now, overlapped, pre, calls>>
    \/ /\ At(t, op, "setConversations")
       /\ conversations' = updatedConversations(task[t])
       /\ SetItem(CONVERSATIONS_STORAGE_KEY)
       /\ Return(t, task[t].newMessage)
       /\ UNCHANGED <<messages, reactions, replies, files, now, overlapped, pre, calls>>

sendMessageToGCP(t) ==
    \/ /\ Free(t)
       /\ \E in \in SendInputs, text \in Texts :
         /\ Begin(t, "sendMessageToGCP", "getConversations",
                  [conversationId |-> in[1], text |-> text, senderId |-> in[2],
                   timestamp |-> ISO(QuietTime)],
                  [messagesJson |-> messages], QuietTime)
         /\ UNCHANGED <<storeVars, files>>
    \/ /\ At(t, "sendMessageToGCP", "getConversations")
       /\ \E n \in ClockReads(t) :
            LET a == task[t].args
                newMessage == [id |-> "msg_" \o ToString(n), text |-> a.text,
                               timestamp |-> a.timestamp, senderId |-> a.senderId,
                               senderName |-> senderNameOf(a.senderId), type |-> "text"]
            IN /\ now' = n
               /\ Goto(t, "setMessages",
                       [newMessage |-> newMessage,
                        conversationsJson |-> conversations,
                        lastMessage |-> a.text])
       /\ UNCHANGED <<storeVars, files, overlapped, pre, calls>>
    \/ SaveSent(t, "sendMessageToGCP")

\* ------------------------------------------------- sendAudioMessage
\* lines 223-227
formatDuration(seconds) ==
    LET minutes == seconds \div 60
        remainingSeconds == seconds % 60
    IN ToString(minutes) \o ":" \o (IF remainingSeconds < 10 THEN "0" ELSE "")
         \o ToString(remainingSeconds)

VoicePreview(formatted) == "(mic) Voice message (" \o formatted \o ")"

\* a call of sendAudioMessage with a senderId of `senders', up to its first
\* await after the copy of the file (lines 181-192)
sendAudioMessageBy(t, senders) ==
    /\ Free(t)
    /\ \E c \in AudioConvInputs, d \in Durations, s \in senders, n \in FireTimes :
         LET destinationUri == AUDIO_DIRECTORY \o "voice_" \o ToString(n) \o ".m4a"
         IN /\ Begin(t, "sendAudioMessage", "getMessages",
                     [conversationId |-> c, audioDuration |-> d, senderId |-> s,
                      timestamp |-> ISO(n)],
                     [destinationUri |-> destinationUri], n)
            /\ files' = files \cup {destinationUri}       \* FileSystem.copyAsync
            /\ UNCHANGED storeVars

sendAudioMessage(t) ==
    \/ sendAudioMessageBy(t, AudioSenders)
    \/ /\ At(t, "sendAudioMessage", "getMessages")
       /\ Goto(t, "getConversations", [messagesJson |-> messages])
       /\ UNCHANGED <<storeVars, files, now, overlapped, pre, calls>>
    \/ /\ At(t, "sendAudioMessage", "getConversations")
       /\ \E n \in ClockReads(t) :
            LET a == task[t].args
                newMessage == [id |-> "msg_" \o ToString(n), audioUri |-> task[t].destinationUri,
                               audioDuration |-> a.audioDuration,
                               timestamp |-> a.timestamp, senderId |-> a.senderId,
                               senderName |-> senderNameOf(a.senderId), type |-> "audio",
                               tags |-> <<>>]
            IN /\ now' = n
               /\ Goto(t, "setMessages",
                       [newMessage |-> newMessage,
                        conversationsJson |-> conversations,
                        lastMessage |-> VoicePreview(formatDuration(a.audioDuration))])
       /\ UNCHANGED <<storeVars, files, overlapped, pre, calls>>
    \/ SaveSent(t, "sendAudioMessage")

\* ------------------------------------------------- markMessagesAsRead
\* a slip that would mark every conversation
ReadConversations_all(convs, conversationId) ==
    Map(convs, LAMBDA conv : [read |-> TRUE, unreadCount |-> 0] @@ conv)

\* lines 407-416
ReadConversations(convs, conversationId) ==
    Map(convs, LAMBDA conv :
        IF conv.id = conversationId
        THEN [read |-> TRUE, unreadCount |-> 0] @@ conv
        ELSE conv)

markMessagesAsRead(t) ==
    \/ /\ Free(t)
       /\ \E c \in ReadConvInputs :
         /\ Begin(t, "markMessagesAsRead", "setConversations",
                  [conversationId |-> c, userId |-> CURRENT_USER],
                  [conversationsJson |-> conversations], QuietTime)
         /\ UNCHANGED <<storeVars, files>>
    \/ /\ At(t, "markMessagesAsRead", "setConversations")
       /\ conversations' = ReadConversations(task[t].conversationsJson,
                                             task[t].args.conversationId)
       /\ SetItem(CONVERSATIONS_STORAGE_KEY)
       /\ Return(t, TRUE)
       /\ UNCHANGED <<messages, reactions, replies, files, now, overlapped, pre, calls>>

\* ------------------------------------------------- createNewConversation
\* the random portrait URL of line 445, when the caller gives no avatar
RandomAvatar == "portraits/random.jpg"

\* a slip that would keep only the new conversation
NewConversations_only(convs, newConversation) == <<newConversation>>

\* a slip that would put the new conversation last
NewConversations_append(convs, newConversation) == Append(convs, newConversation)

\* line 454
NewConversations(convs, newConversation) == <<newConversation>> \o convs

createNewConversation(t) ==
    \/ /\ Free(t)
       /\ \E name \in Names, n \in FireTimes :
            LET newConversationId == "conv_" \o ToString(n)
                newConversation ==
                    [id |-> newConversationId,
                     participantName |-> name,
                     participantAvatar |-> RandomAvatar,
                     lastMessage |-> "",
                     lastMessageTimestamp |-> ISO(n),
                     lastMessageType |-> "text",
                     read |-> TRUE,
                     unreadCount |-> 0]
            IN /\ Begin(t, "createNewConversation", "getMessages", [name |-> name],
                        [conversationsJson |-> conversations,
                         newConversation |-> newConversation], n)
               /\ UNCHANGED <<storeVars, files>>
    \/ /\ At(t, "createNewConversation", "getMessages")
       /\ Goto(t, "setConversations", [messagesJson |-> messages])
       /\ UNCHANGED <<storeVars, files, now, overlapped, pre, calls>>
    \/ /\ At(t, "createNewConversation", "setConversations")
       /\ conversations' = NewConversations(task[t].conversationsJson, task[t].newConversation)
       /\ SetItem(CONVERSATIONS_STORAGE_KEY)
       /\ Goto(t, "setMessages", Saved(t, CONVERSATIONS_STORAGE_KEY))
       /\ UNCHANGED <<messages, reactions, replies, files, now, overlapped, pre, calls>>
    \/ /\ At(t, "createNewConversation", "setMessages")
       /\ messages' = Put(task[t].messagesJson, task[t].newConversation.id, <<>>)
       /\ SetItem(MESSAGES_STORAGE_KEY)
       /\ Return(t, task[t].newConversation)
       /\ UNCHANGED <<conversations, reactions, replies, files, now, overlapped, pre, calls>>

\* ------------------------------------------------- updateMessageTags
\* lines 271-279 and 504-511: for (const convId in allMessages) ... break;
\* the position of the first conversation that holds the id, 0 for none
FindConversation(all, messageId) ==
    IF \E i \in 1..Len(all) : FindIndex(all[i].val, messageId) # 0
    THEN CHOOSE i \in 1..Len(all) :
           /\ FindIndex(all[i].val, messageId) # 0
           /\ \A j \in 1..(i - 1) : FindIndex(all[j].val, messageId) = 0
    ELSE 0

\* a slip that would tag every message of the conversation
SetTags_everywhere(all, messageId, tags) ==
    LET c == FindConversation(all, messageId)
    IN [all EXCEPT ![c].val = [i \in 1..Len(@) |-> [tags |-> tags] @@ @[i]]]

\* line 275
SetTags(all, messageId, tags) ==
    LET c == FindConversation(all, messageId)
        messageIndex == FindIndex(all[c].val, messageId)
    IN [all EXCEPT ![c].val[messageIndex] = [tags |-> tags] @@ @]

updateMessageTags(t) ==
    \/ /\ Free(t)
       /\ \E m \in TagMessageInputs, tags \in TagInputs :
         /\ IF FindConversation(messages, m) # 0
            THEN Begin(t, "updateMessageTags", "setMessages", [messageId |-> m, tags |-> tags],
                       [messagesJson |-> messages], QuietTime)
            ELSE Begin(t, "updateMessageTags", "done", [messageId |-> m, tags |-> tags],
                       [settled |-> "resolved", result |-> FALSE], QuietTime)
         /\ UNCHANGED <<storeVars, files>>
    \/ /\ At(t, "updateMessageTags", "setMessages")
       /\ messages' = SetTags(task[t].messagesJson, task[t].args.messageId, task[t].args.tags)
       /\ SetItem(MESSAGES_STORAGE_KEY)
       /\ Return(t, TRUE)
       /\ UNCHANGED <<conversations, reactions, replies, files, now, overlapped, pre, calls>>

\* ------------------------------------ addReactionToMessage / addReplyToMessage
\* obj[messageId] || []
ListOf(all, messageId) == IF messageId \in DOMAIN all THEN all[messageId] ELSE <<>>

\* getMessageReactions and getMessageReplies, lines 334-338 and 385-389
getMessageReactions(messageId) == ListOf(reactions, messageId)
getMessageReplies(messageId) == ListOf(replies, messageId)

\* lines 310-312 and 361-363
WithCreatedAt(annotation, n) ==
    IF "createdAt" \in DOMAIN annotation THEN annotation
    ELSE [createdAt |-> ISO(n)] @@ annotation

\* a slip that would put the new annotation first
PushAnnotation_unshift(all, messageId, annotation) ==
    [m \in DOMAIN all \cup {messageId} |->
        IF m = messageId THEN <<annotation>> \o ListOf(all, messageId) ELSE all[m]]

\* lines 305-315 and 356-366
PushAnnotation(all, messageId, annotation) ==
    [m \in DOMAIN all \cup {messageId} |->
        IF m = messageId THEN Append(ListOf(all, messageId), annotation) ELSE all[m]]

\* delete obj[messageId]
DeleteKey(all, messageId) == [m \in DOMAIN all \ {messageId} |-> all[m]]

addReactionToMessage(t) ==
    \/ /\ Free(t)
       /\ \E m \in AnnotatedInputs, r \in ReactionInputs, n \in FireTimes :
         \* the caller's object is given its createdAt in place
         LET reaction == WithCreatedAt(r, n)
         IN /\ Begin(t, "addReactionToMessage", "setReactions",
                     [messageId |-> m, reaction |-> reaction],
                     [reactionsJson |-> reactions], n)
            /\ UNCHANGED <<storeVars, files>>
    \/ /\ At(t, "addReactionToMessage", "setReactions")
       /\ reactions' = PushAnnotation(task[t].reactionsJson, task[t].args.messageId,
                                      task[t].args.reaction)
       /\ SetItem(REACTIONS_STORAGE_KEY)
       /\ Return(t, TRUE)
       /\ UNCHANGED <<conversations, messages, replies, files, now, overlapped, pre, calls>>

addReplyToMessage(t) ==
    \/ /\ Free(t)
       /\ \E m \in AnnotatedInputs, r \in ReplyInputs, n \in FireTimes :
         LET reply == WithCreatedAt(r, n)
         IN /\ Begin(t, "addReplyToMessage", "setReplies",
                     [messageId |-> m, reply |-> reply],
                     [repliesJson |-> replies], n)
            /\ UNCHANGED <<storeVars, files>>
    \/ /\ At(t, "addReplyToMessage", "setReplies")
       /\ replies' = PushAnnotation(task[t].repliesJson, task[t].args.messageId,
                                    task[t].args.reply)
       /\ SetItem(REPLIES_STORAGE_KEY)
       /\ Return(t, TRUE)
       /\ UNCHANGED <<conversations, messages, reactions, files, now, overlapped, pre, calls>>

\* ------------------------------------------------- deleteMessage
\* lines 554-557
formattedDuration(audioDuration) ==
    LET minutes == audioDuration \div 60
        seconds == audioDuration % 60
    IN ToString(minutes) \o ":" \o (IF seconds < 10 THEN "0" ELSE "") \o ToString(seconds)

\* lines 550-570
DeletedConversations(convs, conversationId, lastMessage) ==
    Map(convs, LAMBDA conv :
        IF conv.id = conversationId
        THEN [lastMessage |-> IF lastMessage.type = "audio"
                              THEN VoicePreview(formattedDuration(lastMessage.audioDuration))
                              ELSE lastMessage.text,
              lastMessageTimestamp |-> lastMessage.timestamp,
              lastMessageType |-> lastMessage.type] @@ conv
        ELSE conv)

\* line 541: whether the conversation record is rewritten
NeedsPreview(remaining) == Len(remaining) > 0

\* lines 504-511: the message found, and line 529: the lists without it
messageToDelete(r) == Get(r.messagesJson, r.conversationId)[r.messageIndex]
Spliced(r) ==
    [i \in 1..Len(r.messagesJson) |->
        IF r.messagesJson[i].key = r.conversationId
        THEN [key |-> r.conversationId, val |-> Splice(r.messagesJson[i].val, r.messageIndex)]
        ELSE r.messagesJson[i]]

\* a slip that would let the error of the file system end the call
deleteAudioFile_rethrow(t) ==
    /\ At(t, "deleteMessage", "deleteAsync")
    /\ LET audioUri == messageToDelete(task[t]).audioUri
       IN IF audioUri \in files
          THEN /\ files' = files \ {audioUri}
               /\ Goto(t, "getReactions", [fileError |-> FALSE])
          ELSE /\ files' = files
               /\ Throw(t, "deleteAsync")
    /\ UNCHANGED <<storeVars, now, overlapped, pre, calls>>

\* lines 518-526: FileSystem.deleteAsync(messageToDelete.audioUri) in a try of
\* its own.  A file that is not there makes deleteAsync throw (it is not
\* called as idempotent): fileError is caught and logged, and the call goes on.
deleteAudioFile(t) ==
    /\ At(t, "deleteMessage", "deleteAsync")
    /\ LET audioUri == messageToDelete(task[t]).audioUri
       IN /\ files' = files \ {audioUri}
          /\ Goto(t, "getReactions", [fileError |-> audioUri \notin files])
    /\ UNCHANGED <<storeVars, now, overlapped, pre, calls>>

deleteMessage(t) ==
    \/ /\ Free(t)
       /\ \E m \in DeleteInputs :
         /\ LET c == FindConversation(messages, m)
            IN IF c = 0
               THEN Begin(t, "deleteMessage", "done", [messageId |-> m],
                          [settled |-> "resolved", result |-> FALSE], QuietTime)
               ELSE LET found == messages[c].val[FindIndex(messages[c].val, m)]
                    IN Begin(t, "deleteMessage",
                             IF found.type = "audio" /\ "audioUri" \in DOMAIN found
                             THEN "deleteAsync" ELSE "getReactions",
                             [messageId |-> m],
                             [messagesJson |-> messages,
                              conversationId |-> messages[c].key,
                              messageIndex |-> FindIndex(messages[c].val, m)], QuietTime)
         /\ UNCHANGED <<storeVars, files>>
    \/ deleteAudioFile(t)
    \/ /\ At(t, "deleteMessage", "getReactions")
       /\ Goto(t, "getReplies", [reactionsJson |-> reactions])
       /\ UNCHANGED <<storeVars, files, now, overlapped, pre, calls>>
    \/ /\ At(t, "deleteMessage", "getReplies")
       /\ Goto(t, IF NeedsPreview(Get(Spliced(task[t]), task[t].conversationId))
                  THEN "getConversations" ELSE "setMessages",
               [repliesJson |-> replies])
       /\ UNCHANGED <<storeVars, files, now, overlapped, pre, calls>>
    \/ /\ At(t, "deleteMessage", "getConversations")
       /\ Goto(t, "setConversations", [conversationsJson |-> conversations])
       /\ UNCHANGED <<storeVars, files, now, overlapped, pre, calls>>
    \/ /\ At(t, "deleteMessage", "setConversations")
       /\ LET list == Get(Spliced(task[t]), task[t].conversationId)
          IN conversations' = DeletedConversations(task[t].conversationsJson,
                                                   task[t].conversationId, list[Len(list)])
       /\ SetItem(CONVERSATIONS_STORAGE_KEY)
       /\ Goto(t, "setMessages", Saved(t, CONVERSATIONS_STORAGE_KEY))
       /\ UNCHANGED <<messages, reactions, replies, files, now, overlapped, pre, calls>>
    \/ /\ At(t, "deleteMessage", "setMessages")
       /\ messages' = Spliced(task[t])
       /\ SetItem(MESSAGES_STORAGE_KEY)
       /\ Goto(t, "setReactions", Saved(t, MESSAGES_STORAGE_KEY))
       /\ UNCHANGED <<conversations, reactions, replies, files, now, overlapped, pre, calls>>
    \/ /\ At(t, "deleteMessage", "setReactions")
       /\ reactions' = DeleteKey(task[t].reactionsJson, task[t].args.messageId)
       /\ SetItem(REACTIONS_STORAGE_KEY)
       /\ Goto(t, "setReplies", Saved(t, REACTIONS_STORAGE_KEY))
       /\ UNCHANGED <<conversations, messages, replies, files, now, overlapped, pre, calls>>
    \/ /\ At(t, "deleteMessage", "setReplies")
       /\ replies' = DeleteKey(task[t].repliesJson, task[t].args.messageId)
       /\ SetItem(REPLIES_STORAGE_KEY)
       /\ Return(t, TRUE)
       /\ UNCHANGED <<conversations, messages, reactions, files, now, overlapped, pre, calls>>

\* ------------------------------------- initializeLocalStorage, fixMessageTypes
\* line 686: !msg.type
LacksType(msg) == "type" \notin DOMAIN msg \/ msg.type = ""

\* a slip that would take every message without a type for a text
FixedMessage_text(msg) ==
    IF LacksType(msg) THEN [type |-> "text"] @@ msg ELSE msg

\* lines 684-695
FixedMessage(msg) ==
    IF LacksType(msg)
    THEN IF "audioUri" \in DOMAIN msg /\ msg.audioUri # ""
         THEN [type |-> "audio"] @@ msg
         ELSE [type |-> "text"] @@ msg
    ELSE msg

\* lines 682-696
FixedMessages(all) ==
    Map(all, LAMBDA e : [key |-> e.key, val |-> Map(e.val, FixedMessage)])

\* lines 679, 687
needsUpdate(all) ==
    \E i \in 1..Len(all) : \E j \in 1..Len(all[i].val) : LacksType(all[i].val[j])

\* a slip that would take the store for empty at every start
existingConversations_none == FALSE

\* lines 32-34: the item of the conversations key, as the test of line 34
\* takes it (null when the key holds nothing; a stored list, even "[]", is a
\* string that is not empty)
existingConversations == CONVERSATIONS_STORAGE_KEY \in present

\* The module calls initializeLocalStorage when it is loaded, that is when the
\* app starts: no call of an earlier run is in flight.  Its own errors are
\* caught and logged, and it resolves with undefined.
initializeLocalStorage(t) ==
    \/ /\ Free(t)
       /\ \A u \in Tasks : ~Active(u)
       /\ IF ~existingConversations
          THEN Begin(t, "initializeLocalStorage", "setConversations", NoLocals, NoLocals, QuietTime)
          ELSE \* fixMessageTypes
               IF MESSAGES_STORAGE_KEY \notin present
               THEN Begin(t, "initializeLocalStorage", "done", NoLocals,
                          [settled |-> "resolved", result |-> "undefined"], QuietTime)
               ELSE IF needsUpdate(messages)
               THEN Begin(t, "initializeLocalStorage", "fixMessages", NoLocals,
                          [messagesJson |-> messages], QuietTime)
               ELSE Begin(t, "initializeLocalStorage", "done", NoLocals,
                          [settled |-> "resolved", result |-> "undefined"], QuietTime)
       /\ UNCHANGED <<storeVars, files>>
    \/ /\ At(t, "initializeLocalStorage", "setConversations")
       /\ conversations' = dummyConversations
       /\ SetItem(CONVERSATIONS_STORAGE_KEY)
       /\ Goto(t, "setMessages", Saved(t, CONVERSATIONS_STORAGE_KEY))
       /\ UNCHANGED <<messages, reactions, replies, files, now, overlapped, pre, calls>>
    \/ /\ At(t, "initializeLocalStorage", "setMessages")
       /\ messages' = modifiedMessages
       /\ SetItem(MESSAGES_STORAGE_KEY)
       /\ Goto(t, "setReactions", Saved(t, MESSAGES_STORAGE_KEY))
       /\ UNCHANGED <<conversations, reactions, replies, files, now, overlapped, pre, calls>>
    \/ /\ At(t, "initializeLocalStorage", "setReactions")
       /\ reactions' = dummyReactions
       /\ SetItem(REACTIONS_STORAGE_KEY)
       /\ Goto(t, "setReplies", Saved(t, REACTIONS_STORAGE_KEY))
       /\ UNCHANGED <<conversations, messages, replies, files, now, overlapped, pre, calls>>
    \/ /\ At(t, "initializeLocalStorage", "setReplies")
       /\ replies' = dummyReplies
       /\ SetItem(REPLIES_STORAGE_KEY)
       /\ Return(t, "undefined")
       /\ UNCHANGED <<conversations, messages, reactions, files, now, overlapped, pre, calls>>
    \/ /\ At(t, "initializeLocalStorage", "fixMessages")
       /\ messages' = FixedMessages(task[t].messagesJson)
       /\ SetItem(MESSAGES_STORAGE_KEY)
       /\ Return(t, "undefined")
       /\ UNCHANGED <<conversations, reactions, replies, files, now, overlapped, pre, calls>>

\* ------------------------------------------------- storage failures
\* a send that would put the message list back when the conversations could
\* not be saved
SaveSentFails_rollback(t, op) ==
    \/ /\ At(t, op, "setMessages")
       /\ Throw(t, "setItem")
       /\ UNCHANGED <<storeVars, files, now, overlapped, pre, calls>>
    \/ /\ At(t, op, "setConversations")
       /\ messages' = task[t].messagesJson
       /\ Throw(t, "setItem")
       /\ UNCHANGED <<conversations, reactions, replies, present, files, now,
                      overlapped, pre, calls>>

\* AsyncStorage.setItem rejects: the catch of the send logs the error and
\* throws it on (lines 171-174 and 249-252); nothing is undone
SaveSentFails(t, op) ==
    \/ /\ At(t, op, "setMessages")
       /\ Throw(t, "setItem")
       /\ UNCHANGED <<storeVars, files, now, overlapped, pre, calls>>
    \/ /\ At(t, op, "setConversations")
       /\ Throw(t, "setItem")
       /\ UNCHANGED <<storeVars, files, now, overlapped, pre, calls>>

\* ------------------------------------------------- useMessages
HookConvs == {"1", "2"}

\* lines 75-91: setSending(true), setError(null), and the call of the store
Awaits(t) == [hook EXCEPT !.sending = TRUE, !.error = "null",
                          !.awaiting = @ \cup {t}]

sendTextMessage(t) ==
    /\ ~hook.unmounted
    /\ \E text \in Texts :
         BeginCall(t, "sendMessageToGCP", "getConversations",
                   [conversationId |-> hook.conversationId, text |-> text,
                    senderId |-> "123", timestamp |-> ISO(QuietTime)],
                   [messagesJson |-> messages], QuietTime)
    /\ hook' = Awaits(t)
    /\ UNCHANGED <<storeVars, files>>

sendAudioMessageWithData(t) ==
    /\ ~hook.unmounted
    /\ \E d \in Durations, n \in FireTimes :
         LET destinationUri == AUDIO_DIRECTORY \o "voice_" \o ToString(n) \o ".m4a"
         IN /\ BeginCall(t, "sendAudioMessage", "getMessages",
                          [conversationId |-> hook.conversationId, audioDuration |-> d,
                           senderId |-> "123", timestamp |-> ISO(n)],
                          [destinationUri |-> destinationUri], n)
            /\ files' = files \cup {destinationUri}
    /\ hook' = Awaits(t)
    /\ UNCHANGED storeVars

\* the text of the error a failed send leaves
FailureText(op, error) ==
    (IF op = "sendMessageToGCP" THEN "Failed to send message: "
     ELSE "Failed to send audio message: ") \o error

\* lines 93-98 and 133-138: the hook goes on after its await has resolved
Appended(h, newMessage) ==
    IF h.isMountedRef
    THEN [h EXCEPT !.messages = Append(@, newMessage), !.sending = FALSE]
    ELSE h

\* lines 99-108 and 139-148: the catch
Failed(h, op, error) ==
    IF h.isMountedRef
    THEN [h EXCEPT !.error = FailureText(op, error), !.sending = FALSE]
    ELSE h

\* The rest of sendTextMessage / sendAudioMessageWithData, once the store's
\* promise has settled; what the hook's own promise resolves with is kept in
\* the task (a list of one message, or the empty list for null).
Continue(t) ==
    /\ Due(t)
    /\ LET r == task[t]
           h == IF r.settled = "resolved" THEN Appended(hook, r.result)
                ELSE Failed(hook, r.op, r.error)
       IN /\ hook' = [h EXCEPT !.awaiting = @ \ {t}]
          /\ task' = [task EXCEPT ![t] =
                         [returned |-> IF r.settled = "resolved" THEN <<r.result>> ELSE <<>>]
                         @@ @]
    /\ UNCHANGED <<storeVars, files, now, overlapped, pre, race, calls, recorder>>

\* lines 63-65: the cleanup of the effect.  React runs it when the hook
\* unmounts and also before it runs the effect again, which it does when
\* fetchMessages, and so conversationId, has changed.  (The effect then
\* starts fetchMessages, which changes the hook's state only while
\* isMountedRef is set.)
Cleanup ==
    /\ ~hook.unmounted
    /\ \A u \in Tasks : ~Due(u)
    /\ \/ \E c \in HookConvs \ {hook.conversationId} :
            hook' = [hook EXCEPT !.isMountedRef = FALSE, !.conversationId = c]
       \/ hook' = [hook EXCEPT !.isMountedRef = FALSE, !.unmounted = TRUE]
    /\ UNCHANGED <<storeVars, files, now, task, overlapped, pre, race, calls, recorder>>

\* ------------------------------------------------- useAudioRecorder
OsStatuses == {"undetermined", "granted", "denied"}
othersOfRecorder == <<storeVars, files, now, task, overlapped, pre, race, calls, hook>>

\* lines 49-50 and 92-93: setPermissionStatus(status); setHasPermission(granted)
Permitted(r, status) ==
    [r EXCEPT !.permissionStatus = status, !.hasPermission = (status = "granted")]

\* React renders the hook again after a change of its state
Render ==
    /\ recorder.rendered # recorder.permissionStatus
    /\ recorder' = [recorder EXCEPT !.rendered = recorder.permissionStatus]
    /\ UNCHANGED othersOfRecorder

\* lines 27-29: checkPermission called by the mount effect, when
\* Audio.getPermissionsAsync has answered or thrown (lines 52-57)
MountCheck ==
    /\ ~recorder.mountChecked
    /\ \/ recorder' = [Permitted(recorder, recorder.os) EXCEPT !.mountChecked = TRUE]
       \/ recorder' = [Permitted(recorder, "undetermined") EXCEPT !.mountChecked = TRUE]
    /\ UNCHANGED othersOfRecorder

\* ConversationDetailScreen asks for the permission itself (lines 104, 123):
\* the user answers the dialog of the operating system
ScreenRequest ==
    /\ recorder.os = "undetermined"
    /\ \E answer \in {"granted", "denied"} : recorder' = [recorder EXCEPT !.os = answer]
    /\ UNCHANGED othersOfRecorder

\* lines 148-150: startRecording returns false for want of the permission
NotGranted(r) ==
    [r EXCEPT !.recordingError = "Microphone permission not granted",
              !.pc = "idle", !.returned = <<FALSE>>]

\* startRecording, from its call (by the functions of the last render) to
\* its return, await by await
startRecording ==
    /\ \/ /\ recorder.pc = "idle"                               \* lines 143-147
          /\ recorder' = [recorder EXCEPT !.recordingError = "null", !.pc = "check",
                                           !.closure = recorder.rendered,
                                           !.returned = <<>>]
       \/ /\ recorder.pc = "check"                              \* checkPermission
          /\ \/ recorder' = [Permitted(recorder, recorder.os) EXCEPT
                               !.pc = IF recorder.os = "granted" THEN "record"
                                      ELSE "request"]
             \/ recorder' = [Permitted(recorder, "undetermined") EXCEPT !.pc = "request"]
       \/ /\ recorder.pc = "request"                            \* requestPermission
          /\ recorder' = IF recorder.closure = "denied"          \* lines 70-86
                         THEN NotGranted(recorder)
                         ELSE [recorder EXCEPT !.pc = "requesting"]   \* line 90
       \/ /\ recorder.pc = "requesting"                         \* the answer
          /\ \/ \E answer \in (IF recorder.os = "undetermined" THEN {"granted", "denied"}
                                ELSE {recorder.os}) :
                  recorder' = IF answer = "granted"
                              THEN [Permitted(recorder, answer) EXCEPT
                                      !.os = answer, !.pc = "record"]
                              ELSE NotGranted([Permitted(recorder, answer) EXCEPT
                                                 !.os = answer])
             \/ recorder' = NotGranted(recorder)                 \* lines 114-118
       \/ /\ recorder.pc = "record"                             \* lines 154-219
          /\ \/ recorder' = [recorder EXCEPT !.recordingRef = TRUE, !.isRecording = TRUE,
                                              !.recordingTimerRef = TRUE,
                                              !.pc = "idle", !.returned = <<TRUE>>]
             \/ recorder' = [recorder EXCEPT                     \* lines 220-225
                               !.recordingError = "Recording failed: error",
                               !.isRecording = FALSE,
                               !.pc = "idle", !.returned = <<FALSE>>]
    /\ UNCHANGED othersOfRecorder

\* ------------------------------------------------- clearAllData
\* AsyncStorage.removeItem(key): the item is gone, a later getItem gives null
RemoveItem(key) ==
    /\ present' = present \ {key}
    /\ conversations' = IF key = CONVERSATIONS_STORAGE_KEY THEN <<>> ELSE conversations
    /\ messages' = IF key = MESSAGES_STORAGE_KEY THEN <<>> ELSE messages
    /\ reactions' = IF key = REACTIONS_STORAGE_KEY THEN [m \in {} |-> <<>>] ELSE reactions
    /\ replies' = IF key = REPLIES_STORAGE_KEY THEN [m \in {} |-> <<>>] ELSE replies

\* lines 651-654: the four removeItem calls, in this order
RemoveStep(t, pc, key, next) ==
    /\ At(t, "clearAllData", pc)
    /\ RemoveItem(key)
    /\ Goto(t, next, NoLocals)
    /\ UNCHANGED <<files, now, overlapped, pre, calls>>

\* lines 39-57, called from clearAllData: one setItem of the seeding
SeedStep(t, pc, key, next) ==
    /\ At(t, "clearAllData", pc)
    /\ conversations' = IF key = CONVERSATIONS_STORAGE_KEY THEN dummyConversations
                         ELSE conversations
    /\ messages' = IF key = MESSAGES_STORAGE_KEY THEN modifiedMessages ELSE messages
    /\ reactions' = IF key = REACTIONS_STORAGE_KEY THEN dummyReactions ELSE reactions
    /\ replies' = IF key = REPLIES_STORAGE_KEY THEN dummyReplies ELSE replies
    /\ SetItem(key)
    /\ IF next = "done" THEN Return(t, "undefined") ELSE Goto(t, next, Saved(t, key))
    /\ UNCHANGED <<files, now, overlapped, pre, calls>>

\* clearAllData has no simulated delay: the call runs on to its first
\* removeItem.  cleanupAudioFiles lists the directory and deletes the listed
\* files one by one (deleteAsync throws for a file that is no longer there,
\* and the error is thrown on); then initializeLocalStorage runs inside the
\* call: it seeds the store if it finds no conversations and repairs the
\* message types otherwise, and its own errors are caught and logged.
clearAllData(t) ==
    \/ /\ Free(t)
       /\ Begin(t, "clearAllData", "removeConversations", NoLocals, NoLocals, now)
       /\ UNCHANGED <<storeVars, files>>
    \/ RemoveStep(t, "removeConversations", CONVERSATIONS_STORAGE_KEY, "removeMessages")
    \/ RemoveStep(t, "removeMessages", MESSAGES_STORAGE_KEY, "removeReactions")
    \/ RemoveStep(t, "removeReactions", REACTIONS_STORAGE_KEY, "removeReplies")
    \/ RemoveStep(t, "removeReplies", REPLIES_STORAGE_KEY, "readDirectory")
    \/ /\ At(t, "clearAllData", "readDirectory")
       /\ Goto(t, IF files = {} THEN "getConversations" ELSE "deleteFiles",
               [listing |-> files])
       /\ UNCHANGED <<storeVars, files, now, overlapped, pre, calls>>
    \/ /\ At(t, "clearAllData", "deleteFiles")
       /\ \E file \in task[t].listing :
            IF file \in files
            THEN /\ files' = files \ {file}
                 /\ Goto(t, IF task[t].listing = {file} THEN "getConversations"
                            ELSE "deleteFiles",
                         [listing |-> task[t].listing \ {file}])
            ELSE /\ files' = files
                 /\ Throw(t, "deleteAsync")
       /\ UNCHANGED <<storeVars, now, overlapped, pre, calls>>
    \/ /\ At(t, "clearAllData", "getConversations")
       /\ Goto(t, IF CONVERSATIONS_STORAGE_KEY \notin present THEN "setConversations"
                  ELSE "getMessages", NoLocals)
       /\ UNCHANGED <<storeVars, files, now, overlapped, pre, calls>>
    \/ SeedStep(t, "setConversations", CONVERSATIONS_STORAGE_KEY, "setMessages")
    \/ SeedStep(t, "setMessages", MESSAGES_STORAGE_KEY, "setReactions")
    \/ SeedStep(t, "setReactions", REACTIONS_STORAGE_KEY, "setReplies")
    \/ SeedStep(t, "setReplies", REPLIES_STORAGE_KEY, "done")
    \/ /\ At(t, "clearAllData", "getMessages")                  \* fixMessageTypes
       /\ IF MESSAGES_STORAGE_KEY \in present /\ needsUpdate(messages)
          THEN Goto(t, "fixMessages", [messagesJson |-> messages])
          ELSE Return(t, "undefined")
       /\ UNCHANGED <<storeVars, files, now, overlapped, pre, calls>>
    \/ /\ At(t, "clearAllData", "fixMessages")
       /\ messages' = FixedMessages(task[t].messagesJson)
       /\ SetItem(MESSAGES_STORAGE_KEY)
       /\ Return(t, "undefined")
       /\ UNCHANGED <<conversations, reactions, replies, files, now, overlapped, pre, calls>>

\* ------------------------------------------------- the reads
\* AsyncStorage.getItem(key): the item in a list of one, the empty list for null
getItem(key) ==
    IF key \notin present THEN <<>>
    ELSE << CASE key = CONVERSATIONS_STORAGE_KEY -> conversations
              [] key = MESSAGES_STORAGE_KEY -> messages
              [] key = REACTIONS_STORAGE_KEY -> reactions
              [] key = REPLIES_STORAGE_KEY -> replies >>
\* JSON.parse(item) || default
Parsed(item, default) == IF item = <<>> THEN default ELSE item[1]
NoLists == [m \in {} |-> <<>>]

ReadOps == {"fetchConversationsFromGCP", "fetchMessagesFromGCP",
            "getMessageReactions", "getMessageReplies"}
ReadMessageInputs == {"103", "nope"}

\* getConversations, exported also as fetchConversationsFromGCP
fetchConversationsFromGCP(t) ==
    \/ /\ Free(t)
       /\ Begin(t, "fetchConversationsFromGCP", "getItem", NoLocals,
                [item |-> getItem(CONVERSATIONS_STORAGE_KEY)], QuietTime)
       /\ UNCHANGED <<storeVars, files>>
    \/ /\ At(t, "fetchConversationsFromGCP", "getItem")
       /\ Return(t, Parsed(task[t].item, <<>>))
       /\ UNCHANGED <<storeVars, files, now, overlapped, pre, calls>>

\* getMessages, exported also as fetchMessagesFromGCP
fetchMessagesFromGCP(t) ==
    \/ /\ Free(t)
       /\ \E c \in ReadConvInputs :
            Begin(t, "fetchMessagesFromGCP", "getItem", [conversationId |-> c],
                  [item |-> getItem(MESSAGES_STORAGE_KEY)], QuietTime)
       /\ UNCHANGED <<storeVars, files>>
    \/ /\ At(t, "fetchMessagesFromGCP", "getItem")
       /\ Return(t, GetOr(Parsed(task[t].item, <<>>), task[t].args.conversationId))
       /\ UNCHANGED <<storeVars, files, now, overlapped, pre, calls>>

\* getMessageReactions and getMessageReplies as calls
ReadAnnotations(t, op, key) ==
    \/ /\ Free(t)
       /\ \E m \in ReadMessageInputs :
            Begin(t, op, "getItem", [messageId |-> m], [item |-> getItem(key)], QuietTime)
       /\ UNCHANGED <<storeVars, files>>
    \/ /\ At(t, op, "getItem")
       /\ Return(t, ListOf(Parsed(task[t].item, NoLists), task[t].args.messageId))
       /\ UNCHANGED <<storeVars, files, now, overlapped, pre, calls>>

\* ------------------------------------------------- the program
\* the store once initializeLocalStorage (lines 35-59) has seeded it
Seeded ==
    /\ conversations = dummyConversations
    /\ messages = modifiedMessages
    /\ reactions = dummyReactions
    /\ replies = dummyReplies
    /\ present = AllKeys
    /\ files = {}

Quiet ==
    /\ hook = Mounted("1")
    /\ recorder = Recorder("undetermined")
    /\ now = 0
    /\ task = [t \in Tasks |-> Idle]
    /\ overlapped = {}
    /\ pre = Store

Init == Seeded /\ Quiet /\ race = Unrecorded /\ calls = MaxOps

\* the operations that write the message lists
Next ==
    \E t \in Tasks :
        \/ sendMessageToGCP(t)
        \/ sendAudioMessage(t)
        \/ updateMessageTags(t)
        \/ deleteMessage(t)

Spec == Init /\ [][Next]_vars

\* the operations that write the conversation list (sendAudioMessage rewrites
\* it as sendMessageToGCP does)
NextConversations ==
    \E t \in Tasks :
        \/ createNewConversation(t)
        \/ markMessagesAsRead(t)
        \/ sendMessageToGCP(t)
        \/ deleteMessage(t)

SpecConversations == Init /\ [][NextConversations]_vars

\* writers of one key side by side: the reactions, the message lists
NextRaces ==
    \E t \in Tasks :
        \/ addReactionToMessage(t)
        \/ sendMessageToGCP(t)
        \/ deleteMessage(t)

InitRaces == Seeded /\ Quiet /\ race = NoRace /\ calls = MaxOps

SpecRaces == InitRaces /\ [][NextRaces]_vars

\* sends, whose ids come from the clock, and the deletes that go by these ids
MaxIdOps == 3        \* operations called in one behaviour of SpecIds

InitIds == Seeded /\ Quiet /\ race = Unrecorded /\ calls = MaxIdOps

NextIds ==
    \E t \in Tasks :
        \/ sendMessageToGCP(t)
        \/ deleteMessage(t)

SpecIds == InitIds /\ [][NextIds]_vars

\* the operations on the annotations of messages
NextAnnotations ==
    \E t \in Tasks :
        \/ addReactionToMessage(t)
        \/ addReplyToMessage(t)
        \/ deleteMessage(t)

SpecAnnotations == Init /\ [][NextAnnotations]_vars

\* The app starting on the store an earlier run (or an earlier version of the
\* app, whose messages may lack a type) has left, or on an empty store.
MaxStarts == 2       \* app starts in one behaviour
MaxStored == 2       \* messages in the store an earlier run has left

StoredMessages ==
    { [id |-> "a", text |-> "old", timestamp |-> 1, senderId |-> "123", type |-> "text"],
      [id |-> "b", text |-> "old", timestamp |-> 1, senderId |-> "123"],
      [id |-> "c", audioUri |-> "audio/voice_0.m4a", audioDuration |-> 8, timestamp |-> 1,
       senderId |-> "123", type |-> "audio"],
      [id |-> "d", audioUri |-> "audio/voice_0.m4a", audioDuration |-> 8, timestamp |-> 1,
       senderId |-> "123"],
      [id |-> "e", audioDuration |-> 8, timestamp |-> 1, senderId |-> "456", type |-> ""] }

StoredLists == UNION {[1..k -> StoredMessages] : k \in 0..MaxStored}

\* one conversation with such a list, alone or before a second conversation
StoredBlobs ==
    LET other == [key |-> "2", val |->
                    << [id |-> "f", text |-> "kept", timestamp |-> 2,
                        senderId |-> "456", type |-> "text"] >>]
    IN UNION {{ << [key |-> "1", val |-> list] >>,
                << [key |-> "1", val |-> list], other >> } : list \in StoredLists}

InitStarts ==
    /\ \/ /\ present = {}
          /\ conversations = <<>>
          /\ messages = <<>>
       \/ /\ present = AllKeys \ {MESSAGES_STORAGE_KEY}
          /\ conversations = dummyConversations
          /\ messages = <<>>
       \/ /\ present = AllKeys
          /\ conversations = dummyConversations
          /\ messages \in StoredBlobs
    /\ reactions = [m \in {} |-> <<>>]
    /\ replies = [m \in {} |-> <<>>]
    /\ files = {}
    /\ Quiet
    /\ race = Unrecorded
    /\ calls = MaxStarts

NextStarts == \E t \in Tasks : initializeLocalStorage(t)

SpecStarts == InitStarts /\ [][NextStarts]_vars


\* The reads, from a start of the app on (the first one, or one on a store
\* an earlier version has left): the module starts initializeLocalStorage
\* when it is loaded and does not wait for it, so a read may find keys that
\* were never written.
MaxReads == 3        \* calls in one behaviour of SpecReads

InitReads ==
    /\ \/ /\ present = {}
          /\ conversations = <<>>
          /\ messages = <<>>
       \/ /\ present = AllKeys
          /\ conversations = dummyConversations
          /\ messages \in {b \in StoredBlobs :
                             Len(b) = 1 /\ Len(b[1].val) = 1 /\ needsUpdate(b)}
    /\ reactions = NoLists
    /\ replies = NoLists
    /\ files = {}
    /\ Quiet
    /\ race = Unrecorded
    /\ calls = MaxReads

NextReads ==
    \E t \in Tasks :
        \/ initializeLocalStorage(t)
        \/ fetchConversationsFromGCP(t)
        \/ fetchMessagesFromGCP(t)
        \/ ReadAnnotations(t, "getMessageReactions", REACTIONS_STORAGE_KEY)
        \/ ReadAnnotations(t, "getMessageReplies", REPLIES_STORAGE_KEY)

SpecReads == InitReads /\ [][NextReads]_vars


\* clearAllData beside the voice sends, on the seeded store or on a store an
\* earlier version has left, with the file of a voice message
MaxClears == 2       \* calls in one behaviour of SpecClear

InitClear ==
    /\ \/ Seeded
       \/ /\ present = AllKeys
          /\ conversations = dummyConversations
          /\ messages \in {b \in StoredBlobs :
                             Len(b) = 1 /\ Len(b[1].val) = 1 /\ needsUpdate(b)}
          /\ reactions = NoLists
          /\ replies = NoLists
          /\ files = {AUDIO_DIRECTORY \o "voice_0.m4a"}
    /\ Quiet
    /\ race = Unrecorded
    /\ calls = MaxClears

NextClear ==
    \E t \in Tasks :
        \/ clearAllData(t)
        \/ sendAudioMessage(t)

SpecClear == InitClear /\ [][NextClear]_vars


\* the hook's sends, with storage writes that may fail
InitHook == Seeded /\ Quiet /\ race = Unrecorded /\ calls = MaxOps

NextHook ==
    \/ \E t \in Tasks :
          \/ sendTextMessage(t)
          \/ sendAudioMessageWithData(t)
          \/ Continue(t)
          \/ sendMessageToGCP(t)
          \/ sendAudioMessage(t)
          \/ SaveSentFails(t, "sendMessageToGCP")
          \/ SaveSentFails(t, "sendAudioMessage")
    \/ Cleanup

SpecHook == InitHook /\ [][NextHook]_vars


\* The app used and started again: on an empty store, on the seeded one, or
\* on one whose messages an earlier version has left without a type
InitRestarts ==
    /\ \/ Seeded
       \/ /\ present = {}
          /\ conversations = <<>>
          /\ messages = <<>>
          /\ reactions = [m \in {} |-> <<>>]
          /\ replies = [m \in {} |-> <<>>]
          /\ files = {}
       \/ /\ present = AllKeys
          /\ conversations = dummyConversations
          /\ messages \in {b \in StoredBlobs : /\ Len(b) = 2 /\ Len(b[1].val) = 2
                                                /\ b[1].val[1].id = "b"
                                                /\ b[1].val[2].id = "d"}
          /\ reactions = dummyReactions
          /\ replies = dummyReplies
          /\ files = {}
    /\ Quiet
    /\ race = Unrecorded
    /\ calls = MaxOps

NextRestarts ==
    \E t \in Tasks :
        \/ initializeLocalStorage(t)
        \/ sendMessageToGCP(t)
        \/ createNewConversation(t)
        \/ addReactionToMessage(t)

SpecRestarts == InitRestarts /\ [][NextRestarts]_vars

\* dummyConversations as the loading of the mock data may make it.  Every
\* timestamp there is new Date(Date.now() - ...) with a Date.now() of its own:
\* the clock may tick between the one of message "106" (line 105) and the
\* one of conversation "1" (line 272), which then is a millisecond later.
dummyConversationsLoaded ==
    {dummyConversations, [dummyConversations EXCEPT ![1].lastMessageTimestamp = @ + 1]}

InitPreviews ==
    /\ conversations \in dummyConversationsLoaded
    /\ messages = modifiedMessages
    /\ reactions = dummyReactions
    /\ replies = dummyReplies
    /\ present = AllKeys
    /\ files = {}
    /\ Quiet
    /\ race = Unrecorded
    /\ calls = MaxOps

\* Sends to stored conversations, which may overlap one another, and
\* deleteMessage, which runs with no other call beside it
NextPreviews ==
    \E t \in Tasks :
        LET toStored == task'[t].args.conversationId \in ConvIds(conversations)
            noDelete == \A u \in Tasks \ {t} :
                            ~(Active(u) /\ task[u].op = "deleteMessage")
        IN \/ sendMessageToGCP(t) /\ toStored /\ noDelete
           \/ sendAudioMessage(t) /\ toStored /\ noDelete
           \/ deleteMessage(t) /\ \A u \in Tasks \ {t} : ~Active(u)

SpecPreviews == InitPreviews /\ [][NextPreviews]_vars

\* the sends, of the current user and of another sender
NextSends ==
    \E t \in Tasks :
        \/ sendMessageToGCP(t)
        \/ sendAudioMessage(t)
        \/ sendAudioMessageBy(t, Senders \ AudioSenders)

SpecSends == Init /\ [][NextSends]_vars

\* the sends, with storage writes that may fail
NextFailures ==
    \E t \in Tasks :
        \/ sendMessageToGCP(t)
        \/ sendAudioMessage(t)
        \/ SaveSentFails(t, "sendMessageToGCP")
        \/ SaveSentFails(t, "sendAudioMessage")

SpecFailures == Init /\ [][NextFailures]_vars

\* useAudioRecorder, whatever the permission was when the hook was mounted
InitRecorder ==
    /\ Seeded
    /\ hook = Mounted("1")
    /\ recorder \in {Recorder(os) : os \in OsStatuses}
    /\ now = 0
    /\ task = [t \in Tasks |-> Idle]
    /\ overlapped = {}
    /\ pre = Store
    /\ race = Unrecorded
    /\ calls = 0

NextRecorder ==
    \/ startRecording
    \/ MountCheck
    \/ Render
    \/ ScreenRequest

SpecRecorder == InitRecorder /\ [][NextRecorder]_vars


\* ================================================================ claims
\* task t's promise settles in this step
Settles(t) == task'[t].pc = "done" /\ (Active(t) \/ calls' # calls)
\* ... and no other call ran while the call did
SettlesAlone(t, op) == Settles(t) /\ task'[t].op = op /\ t \notin overlapped'
InList(m, list) == \E i \in 1..Len(list) : list[i] = m
Sends == {"sendMessageToGCP", "sendAudioMessage"}

\* the preview of a message in the conversation list
PreviewOf(msg) ==
    IF msg.type = "audio" THEN VoicePreview(formatDuration(msg.audioDuration)) ELSE msg.text
Describes(conv, msg) ==
    /\ conv.lastMessage = PreviewOf(msg)
    /\ conv.lastMessageTimestamp = msg.timestamp
    /\ conv.lastMessageType = msg.type

\* C1: when a send that ran without another call beside it resolves, the new
\* message is in the list of its conversation and has the type of the call,
\* and every stored conversation with that id shows the message's timestamp,
\* its type and its text, or the voice preview made from audioDuration.
C1_SendSetsPreview ==
    [][\A t \in Tasks : \A op \in Sends :
         SettlesAlone(t, op) =>
           LET a == task'[t].args
               m == task'[t].result
           IN /\ InList(m, GetOr(messages', a.conversationId))
              /\ m.timestamp = a.timestamp
              /\ m.type = (IF op = "sendMessageToGCP" THEN "text" ELSE "audio")
              /\ \A i \in 1..Len(conversations') :
                   conversations'[i].id = a.conversationId =>
                     /\ conversations'[i].lastMessageTimestamp = a.timestamp
                     /\ conversations'[i].lastMessageType = m.type
                     /\ conversations'[i].lastMessage =
                          (IF op = "sendMessageToGCP" THEN a.text
                           ELSE VoicePreview(formatDuration(a.audioDuration)))
                     /\ (op = "sendAudioMessage" /\ a.audioDuration = 68
                           => conversations'[i].lastMessage = "(mic) Voice message (1:08)")
      ]_vars

\* a voice message sent alone to a stored conversation whose preview was text
C1_Witness ==
    \E t \in Tasks :
        /\ task[t].pc = "done" /\ task[t].op = "sendAudioMessage" /\ t \notin overlapped
        /\ \E i \in 1..Len(conversations) : \E j \in 1..Len(pre.conversations) :
             /\ conversations[i].id = task[t].args.conversationId
             /\ pre.conversations[j].id = task[t].args.conversationId
             /\ pre.conversations[j].lastMessageType = "text"
             /\ conversations[i].lastMessage = "(mic) Voice message (1:08)"

\* C2: when deleteMessage(m) returns true, the record of the owning
\* conversation describes the last message that remains, and if none remains
\* it no longer describes m.
C2_DeleteRefreshesPreview ==
    [][\A t \in Tasks :
         (SettlesAlone(t, "deleteMessage") /\ task'[t].result) =>
           LET c == task[t].conversationId
               m == messageToDelete(task[t])
               remaining == GetOr(messages', c)
           IN \A i \in 1..Len(conversations') :
                conversations'[i].id = c =>
                  IF remaining # <<>>
                  THEN Describes(conversations'[i], remaining[Len(remaining)])
                  ELSE ~Describes(conversations'[i], m)
      ]_vars

\* C3 as stated: no step, whatever calls overlap, takes a conversation id out
\* of the stored list.
C3_NeverRemoved ==
    [][ConvIds(conversations) \subseteq ConvIds(conversations')]_vars

\* C3 amended: a step of a call that runs without another call beside it
\* takes no conversation id out of the stored list, and the conversation such
\* a createNewConversation returns is in the list.
C3_NeverRemovedAlone ==
    [][/\ overlapped' = {} => ConvIds(conversations) \subseteq ConvIds(conversations')
       /\ \A t \in Tasks :
            SettlesAlone(t, "createNewConversation") =>
              task'[t].result.id \in ConvIds(conversations')
      ]_vars

\* a message sent, alone, to a conversation that createNewConversation made
C3_Witness ==
    \E t \in Tasks :
        /\ task[t].pc = "done" /\ task[t].op = "sendMessageToGCP" /\ overlapped = {}
        /\ task[t].args.conversationId \in CreatedConvs
        /\ ConvIds(dummyConversations) \subseteq ConvIds(conversations)

\* the task that takes this step, when it is in a call that runs alone
StepsAlone(t) == Active(t) /\ task'[t] # task[t] /\ t \notin overlapped
IsPrefix(a, b) == Len(a) <= Len(b) /\ SubSeq(b, 1, Len(a)) = a
\* entry e is what the caller passed as r, with a createdAt
Stores(e, r) ==
    /\ DOMAIN e = DOMAIN r \cup {"createdAt"}
    /\ \A k \in DOMAIN r : e[k] = r[k]
\* blob `new' is blob `old' with entry e appended to the list of m
AppendedTo(new, old, m, e) ==
    /\ DOMAIN new = DOMAIN old \cup {m}
    /\ new[m] = Append(ListOf(old, m), e)
    /\ \A x \in DOMAIN old \ {m} : new[x] = old[x]
\* no list of blob `old' loses or moves an entry, but for the list of a
\* message that a deleteMessage taking this step deletes
KeepsEntries(new, old) ==
    \A x \in DOMAIN old :
        \/ x \in DOMAIN new /\ IsPrefix(old[x], new[x])
        \/ \E t \in Tasks : /\ StepsAlone(t)
                            /\ task[t].op = "deleteMessage"
                            /\ task[t].args.messageId = x

Blob(key) ==
    CASE key = CONVERSATIONS_STORAGE_KEY -> conversations
      [] key = MESSAGES_STORAGE_KEY -> messages
      [] key = REACTIONS_STORAGE_KEY -> reactions
      [] key = REPLIES_STORAGE_KEY -> replies
\* the resolved call r updates the blob of key in a way that r still tells
Tells(r, key) ==
    \/ r.op = "sendMessageToGCP" /\ key \in {MESSAGES_STORAGE_KEY, CONVERSATIONS_STORAGE_KEY}
    \/ r.op = "addReactionToMessage" /\ key = REACTIONS_STORAGE_KEY
    \/ r.op = "deleteMessage" /\ key \in {MESSAGES_STORAGE_KEY, REACTIONS_STORAGE_KEY,
                                         REPLIES_STORAGE_KEY}
\* blob `base' of key with the update of the resolved call r, and no other
Updated(r, key, base) ==
    CASE r.op = "sendMessageToGCP" /\ key = MESSAGES_STORAGE_KEY ->
            Put(base, r.args.conversationId,
                Append(GetOr(base, r.args.conversationId), r.result))
      [] r.op = "sendMessageToGCP" /\ key = CONVERSATIONS_STORAGE_KEY ->
            [i \in 1..Len(base) |->
                IF base[i].id = r.args.conversationId
                THEN [base[i] EXCEPT !.lastMessage = r.args.text,
                                     !.lastMessageTimestamp = r.args.timestamp,
                                     !.lastMessageType = "text",
                                     !.read = (r.args.senderId = CURRENT_USER),
                                     !.unreadCount = IF r.args.senderId = CURRENT_USER
                                                     THEN 0 ELSE @ + 1]
                ELSE base[i]]
      [] r.op = "addReactionToMessage" ->
            [m \in DOMAIN base \cup {r.args.messageId} |->
                IF m = r.args.messageId
                THEN Append(ListOf(base, m), r.args.reaction) ELSE base[m]]
      [] r.op = "deleteMessage" /\ key = MESSAGES_STORAGE_KEY ->
            LET c == FindConversation(base, r.args.messageId)
            IN [base EXCEPT ![c].val = Splice(@, FindIndex(@, r.args.messageId))]
      [] r.op = "deleteMessage" /\ key # MESSAGES_STORAGE_KEY ->
            [m \in DOMAIN base \ {r.args.messageId} |-> base[m]]
\* the call of task t has resolved, with success
Succeeded(t) ==
    /\ task[t].pc = "done"
    /\ task[t].op = "deleteMessage" => task[t].result

\* C5: when two calls that write one key (two addReactionToMessage, two
\* sends, a send and a deleteMessage) have both read the blob of the key
\* before either has written it back, and both have resolved with success,
\* the blob is what the call that wrote last had read with the update of
\* that call alone: the update of the other call is not in it.
C5_LastWriteWins ==
    \A key \in DOMAIN race :
        (/\ race[key].writer # 0
         /\ \A t \in Tasks : Succeeded(t) /\ Tells(task[t], key))
        => Blob(key) = Updated(task[race[key].writer], key, race[key].base)

\* two sends to one conversation have resolved and one message is stored
C5_Witness ==
    /\ MESSAGES_STORAGE_KEY \in DOMAIN race
    /\ race[MESSAGES_STORAGE_KEY].writer # 0
    /\ \A t \in Tasks : /\ task[t].pc = "done"
                        /\ task[t].op = "sendMessageToGCP"
                        /\ task[t].args.conversationId = "1"
    /\ Len(getMessages("1")) = Len(GetOr(modifiedMessages, "1")) + 1

\* C6: a send that runs without another call beside it saves the message
\* list first: from then until it saves the conversation list and resolves,
\* getMessages returns the new message and getConversations the list as it
\* was; no step of it changes the conversation list while the new message
\* is not in the message list.
C6_MessagesThenConversations ==
    [][\A t \in Tasks :
         (StepsAlone(t) /\ task[t].op \in Sends) =>
           LET c == task[t].args.conversationId
           IN /\ task[t].pc = "setMessages" =>
                   /\ InList(task[t].newMessage, getMessages(c)')
                   /\ task'[t].pc = "setConversations"
                   /\ getConversations' = pre.conversations
              /\ task[t].pc = "setConversations" =>
                   /\ InList(task[t].newMessage, getMessages(c))
                   /\ getConversations = pre.conversations
                   /\ messages' = messages
                   /\ Settles(t)
              /\ task[t].pc \notin {"setMessages", "setConversations"} =>
                   /\ messages' = messages
                   /\ conversations' = conversations
              /\ conversations' # conversations =>
                   InList(task[t].newMessage, getMessages(c)')
      ]_vars

\* between the two writes of a send that runs alone: the message is in the
\* list and the conversation still shows the preview it had
C6_Witness ==
    \E t \in Tasks :
        /\ Active(t) /\ task[t].op \in Sends /\ t \notin overlapped
        /\ task[t].pc = "setConversations"
        /\ InList(task[t].newMessage, getMessages(task[t].args.conversationId))
        /\ \E i \in 1..Len(conversations) :
             /\ conversations[i].id = task[t].args.conversationId
             /\ conversations[i].lastMessageTimestamp # task[t].newMessage.timestamp
             /\ conversations[i] = pre.conversations[i]

\* message b is message a with nothing but its tags changed
SameButTags(b, a) ==
    /\ DOMAIN b \ {"tags"} = DOMAIN a \ {"tags"}
    /\ \A k \in DOMAIN a \ {"tags"} : b[k] = a[k]

\* C7: a step of a call that runs without another call beside it leaves
\* every message list as it was, or, in a send, with the new message after
\* its last one, or, in deleteMessage(m), without one message, whose id is m
\* (the others keep their order), or, in updateMessageTags, with the same
\* messages at the same places, only tags changed.
C7_OrderPreserved ==
    [][\A t \in Tasks :
         StepsAlone(t) =>
           \A c \in Keys(messages) \cup Keys(messages') :
              LET old == GetOr(messages, c)
                  new == GetOr(messages', c)
              IN \/ new = old
                 \/ /\ task[t].op \in Sends
                    /\ c = task[t].args.conversationId
                    /\ new = Append(old, task[t].newMessage)
                 \/ /\ task[t].op = "deleteMessage"
                    /\ \E p \in 1..Len(old) :
                         /\ old[p].id = task[t].args.messageId
                         /\ Len(new) = Len(old) - 1
                         /\ \A i \in 1..Len(new) : new[i] = old[IF i < p THEN i ELSE i + 1]
                 \/ /\ task[t].op = "updateMessageTags"
                    /\ Len(new) = Len(old)
                    /\ \A i \in 1..Len(old) : SameButTags(new[i], old[i])
      ]_vars

\* a seeded message deleted from the middle, alone, after a send: the seeded
\* messages around it and the sent one are left, in this order
C7_Witness ==
    \E t \in Tasks :
        /\ task[t].pc = "done" /\ task[t].op = "deleteMessage" /\ overlapped = {}
        /\ task[t].args.messageId = "103"
        /\ Len(getMessages("1")) = 3
        /\ getMessages("1")[1].id = "101"
        /\ getMessages("1")[2].id = "106"
        /\ getMessages("1")[3].id \in SentMessages

\* message b is message a repaired: with the type its audioUri tells
Repaired(b, a) ==
    /\ DOMAIN b = DOMAIN a \cup {"type"}
    /\ \A k \in DOMAIN a \ {"type"} : b[k] = a[k]
    /\ b.type = IF "audioUri" \in DOMAIN a /\ a.audioUri # "" THEN "audio" ELSE "text"
AllMessages(all) == UNION {{all[i].val[j] : j \in 1..Len(all[i].val)} : i \in 1..Len(all)}
FixesTypes(t) == At(t, "initializeLocalStorage", "fixMessages") /\ task'[t] # task[t]

\* C8: when initializeLocalStorage resolves on a store that holds the
\* conversations and the messages, every stored message has a type: one
\* that had none has "audio" if it has an audioUri and "text" if not, and is
\* otherwise as it was, and one that had a type is as it was; the blob is
\* written only if a message had no type; a run on a store where every
\* message has a type changes nothing.
C8_FixMessageTypes ==
    [][\A t \in Tasks :
         /\ (Settles(t) /\ task'[t].op = "initializeLocalStorage"
               /\ {CONVERSATIONS_STORAGE_KEY, MESSAGES_STORAGE_KEY} \subseteq pre'.present) =>
              LET old == pre'.messages
              IN /\ Len(messages') = Len(old)
                 /\ \A i \in 1..Len(old) :
                      /\ messages'[i].key = old[i].key
                      /\ Len(messages'[i].val) = Len(old[i].val)
                      /\ \A j \in 1..Len(old[i].val) :
                           LET a == old[i].val[j]
                               b == messages'[i].val[j]
                           IN /\ "type" \in DOMAIN b /\ b.type # ""
                              /\ IF "type" \in DOMAIN a /\ a.type # ""
                                 THEN b = a ELSE Repaired(b, a)
                 /\ conversations' = pre'.conversations
                 /\ (\A a \in AllMessages(old) : "type" \in DOMAIN a /\ a.type # "")
                      => /\ Store' = pre'
                         /\ ~FixesTypes(t)
         /\ FixesTypes(t) =>
              \E a \in AllMessages(pre.messages) : "type" \notin DOMAIN a \/ a.type = ""
      ]_vars

\* a run has given a stored voice message and a stored text their types
C8_Witness ==
    \E t \in Tasks :
        /\ task[t].pc = "done" /\ task[t].op = "initializeLocalStorage"
        /\ \E a \in AllMessages(pre.messages) : "type" \notin DOMAIN a /\ "audioUri" \in DOMAIN a
        /\ \E a \in AllMessages(pre.messages) : "type" \notin DOMAIN a /\ "audioUri" \notin DOMAIN a
        /\ \E b \in AllMessages(messages) : b.id = "d" /\ b.type = "audio"
        /\ \E b \in AllMessages(messages) : b.id = "b" /\ b.type = "text"

\* C9: when markMessagesAsRead(c, userId) that ran without another call
\* beside it resolves, every stored conversation with id c has read = true
\* and unreadCount = 0 and is otherwise as it was when the call began, the
\* other conversations are as they were, the list has the same order, and
\* the messages, reactions, replies and files are as they were.
C9_MarkReadFrame ==
    [][\A t \in Tasks :
         SettlesAlone(t, "markMessagesAsRead") =>
           /\ task'[t].result
           /\ Len(conversations') = Len(pre.conversations)
           /\ \A i \in 1..Len(conversations') :
                conversations'[i] =
                    IF pre.conversations[i].id = task'[t].args.conversationId
                    THEN [pre.conversations[i] EXCEPT !.read = TRUE, !.unreadCount = 0]
                    ELSE pre.conversations[i]
           /\ messages' = pre.messages
           /\ reactions' = pre.reactions
           /\ replies' = pre.replies
           /\ files' = pre.files
      ]_vars

\* an unread conversation marked, alone
C9_Witness ==
    \E t \in Tasks :
        /\ task[t].pc = "done" /\ task[t].op = "markMessagesAsRead" /\ t \notin overlapped
        /\ \E i \in 1..Len(conversations) :
             /\ conversations[i].id = task[t].args.conversationId
             /\ ~pre.conversations[i].read /\ pre.conversations[i].unreadCount > 0
             /\ conversations[i].read /\ conversations[i].unreadCount = 0

\* C10: when deleteMessage(m) that ran without another call beside it
\* returns true, m is the id of no message in any list, the reactions and
\* the replies have no entry for m, and the entries of the other messages
\* are as they were when the call began.
C10_DeleteRemoves ==
    [][\A t \in Tasks :
         (SettlesAlone(t, "deleteMessage") /\ task'[t].result) =>
           LET m == task'[t].args.messageId
           IN /\ m \notin MessageIds(messages')
              /\ m \notin DOMAIN reactions'
              /\ m \notin DOMAIN replies'
              /\ \A x \in DOMAIN pre.reactions \ {m} :
                   x \in DOMAIN reactions' /\ reactions'[x] = pre.reactions[x]
              /\ \A x \in DOMAIN pre.replies \ {m} :
                   x \in DOMAIN replies' /\ replies'[x] = pre.replies[x]
      ]_vars

\* the places of the stored messages: conversation entry and index in its list
Places(all) == UNION {{<<i, j>> : j \in 1..Len(all[i].val)} : i \in 1..Len(all)}

\* C11: no two messages stored anywhere in the message map share an id, and
\* no two stored conversations share an id.
C11_UniqueIds ==
    /\ \A p, q \in Places(messages) :
          p # q => messages[p[1]].val[p[2]].id # messages[q[1]].val[q[2]].id
    /\ \A i, j \in 1..Len(conversations) :
          i # j => conversations[i].id # conversations[j].id

\* C12: when createNewConversation that ran without another call beside it
\* resolves, the conversation list is the returned object followed by the
\* list as it was, the object is read, has no unread message, an empty
\* lastMessage and lastMessageType "text", the message map has an empty list
\* under the new id, and every other list of the map is as it was.
C12_CreateConversation ==
    [][\A t \in Tasks :
         SettlesAlone(t, "createNewConversation") =>
           LET c == task'[t].result
           IN /\ conversations' = <<c>> \o pre.conversations
              /\ c.participantName = task'[t].args.name
              /\ c.read /\ c.unreadCount = 0
              /\ c.lastMessage = "" /\ c.lastMessageType = "text"
              /\ c.id \notin ConvIds(pre.conversations)
              /\ Keys(messages') = Keys(pre.messages) \cup {c.id}
              /\ Get(messages', c.id) = <<>>
              /\ \A k \in Keys(pre.messages) \ {c.id} :
                   Get(messages', k) = Get(pre.messages, k)
      ]_vars

\* a conversation created, alone, after a message was sent: it is first,
\* the seeded conversations follow, and the sent message is still stored
C12_Witness ==
    \E t \in Tasks :
        /\ task[t].pc = "done" /\ task[t].op = "createNewConversation" /\ overlapped = {}
        /\ Len(conversations) = 3
        /\ conversations[1] = task[t].result
        /\ conversations[2].id = "1" /\ conversations[3].id = "2"
        /\ Get(messages, task[t].result.id) = <<>>
        /\ SentMessages # {}

\* the storage key a read gets, and the id it looks up
KeyRead(op) ==
    CASE op = "fetchConversationsFromGCP" -> CONVERSATIONS_STORAGE_KEY
      [] op = "fetchMessagesFromGCP" -> MESSAGES_STORAGE_KEY
      [] op = "getMessageReactions" -> REACTIONS_STORAGE_KEY
      [] op = "getMessageReplies" -> REPLIES_STORAGE_KEY
\* the read of task t found no entry: no item under the key, or no entry for
\* the id in the item it got
FoundNone(t) ==
    \/ task[t].item = <<>>
    \/ /\ task[t].op = "fetchMessagesFromGCP"
       /\ ~Has(task[t].item[1], task[t].args.conversationId)
    \/ /\ task[t].op \in {"getMessageReactions", "getMessageReplies"}
       /\ task[t].args.messageId \notin DOMAIN task[t].item[1]

\* C13: a read resolves, with the empty list when it found no item under its
\* key or no entry for its id, and with the stored list otherwise; a read
\* that runs alone and finds its key absent from the store returns the empty
\* list; no step of a read changes the store or the files.
C13_ReadsReturnLists ==
    [][\A t \in Tasks :
         /\ (Settles(t) /\ task'[t].op \in ReadOps) =>
               /\ task'[t].settled = "resolved"
               /\ FoundNone(t) => task'[t].result = <<>>
               /\ (t \notin overlapped' /\ KeyRead(task[t].op) \notin present)
                     => task'[t].result = <<>>
               /\ (~FoundNone(t) /\ task[t].op = "fetchMessagesFromGCP")
                     => task'[t].result = Get(task[t].item[1], task[t].args.conversationId)
               /\ (~FoundNone(t) /\ task[t].op = "fetchConversationsFromGCP")
                     => task'[t].result = task[t].item[1]
         /\ (task'[t] # task[t] /\ task'[t].op \in ReadOps) =>
               /\ <<conversations, messages, reactions, replies, present>>' = storeVars
               /\ files' = files
      ]_vars

\* getMessages has returned the empty list from a store whose messages key
\* was never written, while the conversations were already seeded
C13_Witness ==
    \E t \in Tasks :
        /\ task[t].pc = "done" /\ task[t].op = "fetchMessagesFromGCP"
        /\ task[t].result = <<>>
        /\ task[t].args.conversationId = "1"
        /\ CONVERSATIONS_STORAGE_KEY \in present
        /\ MESSAGES_STORAGE_KEY \notin present

Completes(t) == Due(t) /\ t \notin hook'.awaiting

\* C15: a send of the hook that runs alone, in a hook that is not unmounted,
\* never rejects; when the store's send has resolved it appends the created
\* message to the hook's messages and returns it, when the store's send has
\* rejected it returns null, sets error and leaves the messages as they are;
\* sending is true while the send is awaited and false once it completes.
C15_HookSends ==
    [][/\ \A t \in Tasks :
            (Completes(t) /\ ~hook.unmounted /\ t \notin overlapped) =>
              /\ ~hook'.sending
              /\ IF task[t].settled = "resolved"
                 THEN /\ hook'.messages = Append(hook.messages, task[t].result)
                      /\ task'[t].returned = <<task[t].result>>
                 ELSE /\ task'[t].returned = <<>>
                      /\ hook'.error = FailureText(task[t].op, task[t].error)
                      /\ hook'.messages = hook.messages
       /\ (hook'.awaiting # {} /\ ~hook'.unmounted /\ overlapped' = {}) => hook'.sending
      ]_vars

\* startRecording returns for want of the permission in this step
ReturnsNotGranted ==
    /\ recorder.pc \in {"request", "requesting"}
    /\ recorder'.pc = "idle"

\* C16: when startRecording returns because the permission is neither
\* granted already nor granted on request, it returns false, recordingError
\* is "Microphone permission not granted", no recording and no timer have
\* been made and isRecording is as it was; and Audio.requestPermissionsAsync
\* is never called while the hook's permissionStatus is "denied".
C16_EnsuresPermission ==
    [][/\ ReturnsNotGranted =>
            /\ recorder'.returned = <<FALSE>>
            /\ recorder'.recordingError = "Microphone permission not granted"
            /\ recorder'.recordingRef = recorder.recordingRef
            /\ recorder'.recordingTimerRef = recorder.recordingTimerRef
            /\ recorder'.isRecording = recorder.isRecording
       /\ (recorder.pc = "request" /\ recorder'.pc = "requesting")
            => recorder.permissionStatus # "denied"
      ]_vars

\* the send of task t rejects in this step, at the write it awaited
FailsAt(t, op, pc) == SettlesAlone(t, op) /\ At(t, op, pc) /\ task'[t].settled = "rejected"

\* C17: a send that ran alone and whose write of the conversations fails
\* rejects with the error of the write, the new message is in the stored list
\* of its conversation and the conversation list is as it was before the
\* call; a send whose write of the messages fails rejects and leaves both
\* the messages and the conversations as they were before the call.
C17_NoRollback ==
    [][\A t \in Tasks : \A op \in Sends :
         /\ FailsAt(t, op, "setConversations") =>
              /\ task'[t].error = "setItem"
              /\ InList(task[t].newMessage, GetOr(messages', task[t].args.conversationId))
              /\ messages' # pre.messages
              /\ conversations' = pre.conversations
         /\ FailsAt(t, op, "setMessages") =>
              /\ task'[t].error = "setItem"
              /\ messages' = pre.messages
              /\ conversations' = pre.conversations
      ]_vars

\* a send to a stored conversation has rejected after its message was
\* saved: the message is stored and the preview is still the old one
C17_Witness ==
    \E t \in Tasks :
        /\ task[t].pc = "done" /\ task[t].op \in Sends /\ t \notin overlapped
        /\ task[t].settled = "rejected"
        /\ task[t].args.conversationId = "1"
        /\ Len(GetOr(messages, "1")) = Len(GetOr(pre.messages, "1")) + 1
        /\ conversations = pre.conversations
        /\ \E i \in 1..Len(conversations) :
             /\ conversations[i].id = "1"
             /\ conversations[i].lastMessageTimestamp # task[t].args.timestamp

\* C18: when a send that ran alone resolves, the conversation list has the
\* conversations it had before the call, in their places; a conversation
\* with the id of the send has read = TRUE and unreadCount = 0 if the
\* senderId is "123", and read = FALSE and one more unread message than
\* before the call otherwise; every other conversation has the read flag
\* and the unreadCount it had.
C18_OwnMessagesRead ==
    [][\A t \in Tasks : \A op \in Sends :
         (SettlesAlone(t, op) /\ task'[t].settled = "resolved") =>
           LET a == task'[t].args
           IN /\ Len(conversations') = Len(pre.conversations)
              /\ \A i \in 1..Len(conversations') :
                   LET new == conversations'[i]
                       old == pre.conversations[i]
                   IN /\ new.id = old.id
                      /\ IF new.id # a.conversationId
                         THEN new.read = old.read /\ new.unreadCount = old.unreadCount
                         ELSE IF a.senderId = "123"
                              THEN new.read = TRUE /\ new.unreadCount = 0
                              ELSE new.read = FALSE /\ new.unreadCount = old.unreadCount + 1
      ]_vars

\* a voice message of another sender has been sent alone to a stored
\* conversation that was read: it is unread now, with one message more,
\* beside another conversation that is read
C18_Witness ==
    \E t \in Tasks :
        /\ task[t].pc = "done" /\ task[t].op = "sendAudioMessage" /\ t \notin overlapped
        /\ task[t].settled = "resolved"
        /\ task[t].args.senderId = "456"
        /\ \E i \in 1..Len(conversations) :
             /\ conversations[i].id = task[t].args.conversationId
             /\ pre.conversations[i].read
             /\ ~conversations[i].read
             /\ conversations[i].unreadCount = pre.conversations[i].unreadCount + 1
        /\ \E i \in 1..Len(conversations) :
             /\ conversations[i].id # task[t].args.conversationId
             /\ conversations[i].read

\* the operations that look a message up by its id
Lookups == {"deleteMessage", "updateMessageTags"}

\* C19: a deleteMessage or updateMessageTags that ran alone and whose id no
\* stored message had resolves with false and has changed nothing in the
\* four stores nor a file; an updateMessageTags that ran alone and whose id a
\* stored message had resolves with true, one message with that id has the
\* new tags and is otherwise as it was, and every other message, the
\* conversations, the reactions, the replies and the files are as they were.
C19_UnknownIdIsFalse ==
    [][\A t \in Tasks : \A op \in Lookups :
         /\ SettlesAlone(t, op) =>
              LET a == task'[t].args
              IN IF a.messageId \notin MessageIds(pre'.messages)
                 THEN /\ task'[t].settled = "resolved"
                      /\ task'[t].result = FALSE
                      /\ Store' = pre'
                      /\ UNCHANGED <<storeVars, files>>
                 ELSE op = "updateMessageTags" =>
                      /\ task'[t].settled = "resolved"
                      /\ task'[t].result = TRUE
                      /\ \E c \in 1..Len(pre.messages) : \E p \in 1..Len(pre.messages[c].val) :
                           /\ pre.messages[c].val[p].id = a.messageId
                           /\ messages' = [pre.messages EXCEPT
                                             ![c].val[p] = [tags |-> a.tags] @@ @]
                      /\ conversations' = pre.conversations
                      /\ reactions' = pre.reactions
                      /\ replies' = pre.replies
         /\ (StepsAlone(t) /\ task[t].op = "updateMessageTags") => files' = files
      ]_vars

\* an updateMessageTags for an id that no message has has resolved with
\* false, after an earlier one has tagged the stored message "106"
C19_Witness ==
    \E t \in Tasks :
        /\ task[t].pc = "done" /\ task[t].op = "updateMessageTags" /\ t \notin overlapped
        /\ task[t].args.messageId = "nope"
        /\ task[t].result = FALSE
        /\ Store = pre
        /\ \E i \in 1..Len(getMessages("1")) :
             /\ getMessages("1")[i].id = "106"
             /\ getMessages("1")[i].tags = <<"todo">>
        /\ \E i \in 1..Len(getMessages("1")) :
             /\ getMessages("1")[i].id = "103"
             /\ getMessages("1")[i].tags = <<"Question", "Task">>

\* the message lists `new' are the lists `old' without one message of id m
WithoutOne(new, old, m) ==
    \E c \in 1..Len(old) : \E p \in 1..Len(old[c].val) :
        /\ old[c].val[p].id = m
        /\ new = [old EXCEPT ![c].val = Splice(@, p)]

\* C20: in a deleteMessage that runs alone, the step that deletes the audio
\* file never ends the call, whether the file system throws or not; a call
\* in which the deletion of the file threw resolves with true, and then the
\* message lists are those before the call without one message of the id,
\* and neither the reactions nor the replies have an entry for the id.  A
\* call that found a message whose type is not "audio" never comes to the
\* deletion of a file and leaves the files as they are.
C20_FileErrorIgnored ==
    [][\A t \in Tasks :
         /\ (StepsAlone(t) /\ At(t, "deleteMessage", "deleteAsync")) =>
              /\ task'[t].pc = "getReactions"
              /\ messageToDelete(task[t]).type = "audio"
         /\ (SettlesAlone(t, "deleteMessage") /\ "fileError" \in DOMAIN task[t]
               /\ task[t].fileError) =>
              /\ task'[t].settled = "resolved"
              /\ task'[t].result = TRUE
              /\ WithoutOne(messages', pre.messages, task'[t].args.messageId)
              /\ task'[t].args.messageId \notin DOMAIN reactions'
              /\ task'[t].args.messageId \notin DOMAIN replies'
         /\ (task'[t].op = "deleteMessage" /\ task'[t] # task[t] /\ t \notin overlapped'
               /\ "messagesJson" \in DOMAIN task'[t]
               /\ messageToDelete(task'[t]).type # "audio") =>
              /\ task'[t].pc # "deleteAsync"
              /\ files' = files
      ]_vars

\* the voice message "103", whose sample file was never written, has been
\* deleted alone: the call resolved with true, and the message, its
\* reactions and its reply are gone
C20_Witness ==
    \E t \in Tasks :
        /\ task[t].pc = "done" /\ task[t].op = "deleteMessage" /\ t \notin overlapped
        /\ task[t].args.messageId = "103"
        /\ SampleUri("103") \notin files
        /\ task[t].result = TRUE
        /\ "103" \in MessageIds(pre.messages) /\ "103" \notin MessageIds(messages)
        /\ "103" \in DOMAIN pre.reactions /\ "103" \notin DOMAIN reactions
        /\ "103" \in DOMAIN pre.replies /\ "103" \notin DOMAIN replies

\* the message lists `new' are the lists `old', but for types repaired
TypesRepaired(new, old) ==
    /\ Len(new) = Len(old)
    /\ \A i \in 1..Len(old) :
         /\ new[i].key = old[i].key
         /\ Len(new[i].val) = Len(old[i].val)
         /\ \A j \in 1..Len(old[i].val) :
              \/ new[i].val[j] = old[i].val[j]
              \/ /\ LacksType(old[i].val[j])
                 /\ Repaired(new[i].val[j], old[i].val[j])

\* C21: an initializeLocalStorage that began, with no other call beside it,
\* on a store whose conversations key holds an item writes neither the
\* conversations nor the reactions nor the replies, and writes the messages
\* only if a stored message has no type; when it resolves, the keys that
\* hold an item, the conversations, the reactions, the replies and the files
\* are as they were when it began, and the messages are as they were but
\* for the types given to messages that had none.
C21_SeedsOnlyEmptyStore ==
    [][\A t \in Tasks :
         /\ (StepsAlone(t) /\ task[t].op = "initializeLocalStorage"
               /\ CONVERSATIONS_STORAGE_KEY \in pre.present) =>
              /\ UNCHANGED <<conversations, reactions, replies, files>>
              /\ messages' # messages =>
                    \E a \in AllMessages(messages) : LacksType(a)
         /\ (SettlesAlone(t, "initializeLocalStorage")
               /\ CONVERSATIONS_STORAGE_KEY \in pre'.present) =>
              /\ present' = pre'.present
              /\ conversations' = pre'.conversations
              /\ reactions' = pre'.reactions
              /\ replies' = pre'.replies
              /\ files' = pre'.files
              /\ TypesRepaired(messages', pre'.messages)
      ]_vars

\* the app has started again, alone, on a store that an earlier version had
\* left and to which a message had been sent since: the message sent and the
\* preview it made are there, the seeded reactions too, and the old voice
\* message has its type
C21_Witness ==
    \E t \in Tasks :
        /\ task[t].pc = "done" /\ task[t].op = "initializeLocalStorage"
        /\ t \notin overlapped
        /\ SentMessages # {}
        /\ conversations = pre.conversations
        /\ conversations # dummyConversations
        /\ reactions = dummyReactions
        /\ \E a \in AllMessages(pre.messages) : a.id = "d" /\ LacksType(a)
        /\ \E b \in AllMessages(messages) : b.id = "d" /\ b.type = "audio"

\* every conversation of convs whose list in `all' has a message shows the
\* timestamp and the type of the last one
PreviewIsLast(convs, all) ==
    \A i \in 1..Len(convs) :
        LET list == GetOr(all, convs[i].id)
        IN list # <<>> =>
             /\ convs[i].lastMessageTimestamp = list[Len(list)].timestamp
             /\ convs[i].lastMessageType = list[Len(list)].type

\* C22 as stated: whenever no call is in progress, after sends to stored
\* conversations that may overlap and deletes that run alone, every
\* conversation with a message shows the timestamp and type of its last one.
C22_PreviewIsLast ==
    (\A t \in Tasks : ~Active(t)) => PreviewIsLast(conversations, messages)

\* C22, for calls that do not overlap: a send to a stored conversation or a
\* deleteMessage that ran with no other call beside it, on a store that had
\* the property when the call began, leaves a store that has it; and a send
\* that ran alone leaves its own conversation showing the timestamp and the
\* type of the last message of its list, whatever it showed before.
C22_PreviewIsLastAlone ==
    [][\A t \in Tasks : \A op \in Sends \cup {"deleteMessage"} :
         /\ (SettlesAlone(t, op) /\ PreviewIsLast(pre'.conversations, pre'.messages))
              => PreviewIsLast(conversations', messages')
         /\ (SettlesAlone(t, op) /\ op \in Sends) =>
              PreviewIsLast(SelectSeq(conversations',
                                      LAMBDA c : c.id = task'[t].args.conversationId),
                            messages')
      ]_vars

\* the last message of conversation "1" has been deleted alone after a text
\* was sent to it: the conversation shows the voice message "106", which is
\* the last again, and not the text it showed before the call
C22_Witness ==
    \E t \in Tasks :
        /\ task[t].pc = "done" /\ task[t].op = "deleteMessage" /\ t \notin overlapped
        /\ task[t].result = TRUE
        /\ task[t].args.messageId \in MessageIds(pre.messages) \ MessageIds(dummyMessages)
        /\ PreviewIsLast(pre.conversations, pre.messages)
        /\ \E i \in 1..Len(conversations) :
             /\ conversations[i].id = "1"
             /\ pre.conversations[i].lastMessageType = "text"
             /\ conversations[i].lastMessageType = "audio"
             /\ conversations[i].lastMessageTimestamp = 7
        /\ getMessages("1")[Len(getMessages("1"))].id = "106"

====
